---- MODULE Spec2Model ----
(***************************************************************************)
(* Model of the neo4j_lmstudio package: configuration validation           *)
(* (config/settings.py), the LMStudio embedder and language model          *)
(* (core/embeddings.py, core/llm.py, core/client.py), the two RAG          *)
(* strategies (rag/vector_cypher_rag.py, rag/text2cypher_rag.py), the      *)
(* schema extractor, connection manager and health checker                 *)
(* (utils/helpers.py), the connection probes, the strategies'              *)
(* context-manager protocol and the process-wide Settings and client       *)
(* singletons.                                                             *)
(*                                                                         *)
(* Each component has its own variables and its own specification; a       *)
(* specification leaves the variables of the other components at their     *)
(* idle values.                                                            *)
(***************************************************************************)
EXTENDS Integers, Sequences, FiniteSets, TLC

VARIABLES
    settings,      \* the Settings value under validation
    validation,    \* what Settings.validate() returned for it, or NoReport
    llmArgs,       \* the arguments of the LMStudioLLM.invoke call
    llmBackend,    \* how the LMStudio backend answers that call
    llmSent,       \* the requests the call has sent to the backend, in order
    llmOut,        \* the outcome of the call: pending, returned or raised
    embTexts,      \* the texts given to LMStudioEmbedder.embed_documents
    embBatchSize,  \* the embedder's batch_size
    embPaths,      \* per batch processed, how the backend served it
    embSent,       \* the requests sent to the embedding backend, in order
    embOut,        \* the outcome of embed_documents: pending, returned or raised
    strat,         \* the fields of the RAG strategy instance (either class)
    lists,         \* the Python list objects the instance can reach, by name
    nextId,        \* the identity the next constructed object gets
    supplied,      \* the configuration last supplied by constructor and updates
    updates,       \* the number of update calls started so far
    pc,            \* where the updating thread stands inside an update call
    lastCall,      \* what the last search or retrieve_only call used
    report,        \* what validate_setup returned, with the probes it ran
    catalog,       \* what the database's catalog holds
    extraction,    \* the last extract_full_schema call: inputs and outcome
    previous,      \* the sets the extract_full_schema call before it returned
    coreCall,      \* the last call made on the client, the LLM or the embedder
    callOutcome,   \* how the last call on the traversal strategy ended
    cypherCall,    \* the last generate_cypher or execute_cypher call on the strategy
    ctx,           \* a strategy used in a with statement: its driver and where the block stands
    env,           \* what the environment variables configure: the settings and the LMStudio host
    proc,          \* the module globals _settings and _client, the SDK's default host, and what has been created
    procOp,        \* the last call on the globals or strategy constructor, with what it did
    health,        \* what check_all_health returned, with how the services behaved
    dumped,        \* the last two Settings passed to to_dict, each with the dictionary it returned
    manager,       \* the fields of one ConnectionManager
    drivers,       \* every driver the manager created, with whether it is open and how often it was closed
    managerCall,   \* the last call on the manager and what it did
    summaryCall    \* the last get_schema_summary call: the catalog, how the queries went, and the text returned

settingsVars == <<settings, validation>>
llmVars == <<llmArgs, llmBackend, llmSent, llmOut>>
embVars == <<embTexts, embBatchSize, embPaths, embSent, embOut>>
stratVars == <<strat, lists, nextId, supplied, updates, pc, lastCall, report>>
schemaVars == <<catalog, extraction, previous>>
coreVars == <<coreCall>>
lazyVars == <<callOutcome>>
cypherVars == <<cypherCall>>
contextVars == <<ctx>>
processVars == <<env, proc, procOp>>
healthVars == <<health>>
dumpVars == <<dumped>>
connVars == <<manager, drivers, managerCall>>
summaryVars == <<summaryCall>>

vars == <<settings, validation, llmArgs, llmBackend, llmSent, llmOut,
          embTexts, embBatchSize, embPaths, embSent, embOut,
          strat, lists, nextId, supplied, updates, pc, lastCall, report,
          catalog, extraction, previous,
          coreCall,
          callOutcome,
          cypherCall,
          ctx,
          env, proc, procOp,
          health,
          dumped,
          manager, drivers, managerCall,
          summaryCall>>

\* Python's None, where an optional string is expected.
None == "<None>"

\* Python truthiness of an optional string: None and "" are falsy.
Truthy(s) == s # None /\ s # ""

AppendIf(seq, cond, item) == IF cond THEN Append(seq, item) ELSE seq

Range(seq) == {seq[k] : k \in DOMAIN seq}

(***************************************************************************)
(* config/settings.py                                                      *)
(***************************************************************************)

\* Values a string field of the configuration takes: empty, or the default.
ApiHosts == {"", "http://127.0.0.1:1234/v1"}
ChatModels == {"", "meta-llama-3.1-8b-instruct"}
EmbeddingModels == {"", "nomic-ai/nomic-embed-text-v1.5"}
Uris == {"", "neo4j://localhost:7687"}
Usernames == {"", "neo4j"}
Passwords == {"", "secret"}
\* temperature and similarity_threshold are floats; the model keeps them in
\* tenths, so 0.7 is 7 and the limits 2 and 1 are 20 and 10.
Temperatures == {-1, 7, 20, 21}
Thresholds == {-1, 7, 10, 11}
TopKs == {-1, 0, 1, 5}

SettingsValues ==
    [api_host : ApiHosts, chat_model : ChatModels,
     embedding_model : EmbeddingModels, temperature : Temperatures,
     uri : Uris, username : Usernames, password : Passwords,
     top_k : TopKs, similarity_threshold : Thresholds,
     index_name : {"moviePlots"}]

NoReport == [valid |-> FALSE, errors |-> <<"<not validated>">>, warnings |-> <<>>]

\* A plausible slip: the username check is left out.
validate_without_username(s) ==
    LET e1 == AppendIf(<<>>, s.api_host = "", "LMStudio API host is required")
        e2 == AppendIf(e1, s.chat_model = "", "LMStudio chat model is required")
        e3 == AppendIf(e2, s.embedding_model = "", "LMStudio embedding model is required")
        e4 == AppendIf(e3, s.uri = "", "Neo4j URI is required")
        e6 == AppendIf(e4, s.top_k <= 0, "RAG top_k must be greater than 0")
        w1 == AppendIf(<<>>, s.temperature < 0 \/ s.temperature > 20,
                       "LMStudio temperature should be between 0 and 2")
        w2 == AppendIf(w1, s.password = "",
                       "Neo4j password is empty - this may cause authentication issues")
        w3 == AppendIf(w2, s.similarity_threshold < 0 \/ s.similarity_threshold > 10,
                       "RAG similarity threshold should be between 0 and 1")
    IN  [valid |-> Len(e6) = 0, errors |-> e6, warnings |-> w3]

\* A plausible slip: the empty password is reported as an error.
validate_password_error(s) ==
    LET e1 == AppendIf(<<>>, s.api_host = "", "LMStudio API host is required")
        e2 == AppendIf(e1, s.chat_model = "", "LMStudio chat model is required")
        e3 == AppendIf(e2, s.embedding_model = "", "LMStudio embedding model is required")
        e4 == AppendIf(e3, s.uri = "", "Neo4j URI is required")
        e5 == AppendIf(e4, s.username = "", "Neo4j username is required")
        e6 == AppendIf(e5, s.password = "",
                       "Neo4j password is empty - this may cause authentication issues")
        e7 == AppendIf(e6, s.top_k <= 0, "RAG top_k must be greater than 0")
        w1 == AppendIf(<<>>, s.temperature < 0 \/ s.temperature > 20,
                       "LMStudio temperature should be between 0 and 2")
        w3 == AppendIf(w1, s.similarity_threshold < 0 \/ s.similarity_threshold > 10,
                       "RAG similarity threshold should be between 0 and 1")
    IN  [valid |-> Len(e7) = 0, errors |-> e7, warnings |-> w3]

\* Settings.validate: the errors and warnings in the order the code appends them.
validate(s) ==
    LET e1 == AppendIf(<<>>, s.api_host = "", "LMStudio API host is required")
        e2 == AppendIf(e1, s.chat_model = "", "LMStudio chat model is required")
        e3 == AppendIf(e2, s.embedding_model = "", "LMStudio embedding model is required")
        e4 == AppendIf(e3, s.uri = "", "Neo4j URI is required")
        e5 == AppendIf(e4, s.username = "", "Neo4j username is required")
        e6 == AppendIf(e5, s.top_k <= 0, "RAG top_k must be greater than 0")
        w1 == AppendIf(<<>>, s.temperature < 0 \/ s.temperature > 20,
                       "LMStudio temperature should be between 0 and 2")
        w2 == AppendIf(w1, s.password = "",
                       "Neo4j password is empty - this may cause authentication issues")
        w3 == AppendIf(w2, s.similarity_threshold < 0 \/ s.similarity_threshold > 10,
                       "RAG similarity threshold should be between 0 and 1")
    IN  [valid |-> Len(e6) = 0, errors |-> e6, warnings |-> w3]

SettingsInit ==
    /\ settings \in SettingsValues
    /\ validation = NoReport

SettingsIdle ==
    /\ settings = [api_host |-> "", chat_model |-> "", embedding_model |-> "",
                   temperature |-> 7, uri |-> "", username |-> "", password |-> "",
                   top_k |-> 5, similarity_threshold |-> 7,
                   index_name |-> "moviePlots"]
    /\ validation = NoReport

\* settings.validate() is called on the current settings.
Validate ==
    /\ validation = NoReport
    /\ validation' = validate(settings)
    /\ UNCHANGED settings

RequiredFieldsNonEmpty(s) ==
    /\ s.api_host # ""
    /\ s.chat_model # ""
    /\ s.embedding_model # ""
    /\ s.uri # ""
    /\ s.username # ""

Validated == validation # NoReport

PasswordWarning == "Neo4j password is empty - this may cause authentication issues"

Count(seq, x) == Cardinality({k \in DOMAIN seq : seq[k] = x})

\* C1 (original statement): validate() returns valid=true if and only if the
\* five required fields are non-empty.
C1_ValidIffRequiredFields ==
    Validated => (validation.valid <=> RequiredFieldsNonEmpty(settings))

\* C1 (amended): validate() returns valid=true if and only if the five
\* required fields are non-empty and rag.top_k is greater than 0.
C1_ValidIffRequiredFieldsAndTopK ==
    Validated =>
        (validation.valid <=> (RequiredFieldsNonEmpty(settings) /\ settings.top_k > 0))

\* Witnesses of C1: a validated configuration with all five fields set and a
\* top_k that is not positive, reported invalid.
C1_Witness ==
    /\ Validated
    /\ RequiredFieldsNonEmpty(settings)
    /\ settings.top_k <= 0
    /\ ~validation.valid

\* C2: with an empty neo4j.password, validate() yields the password warning
\* exactly once and nothing else on its account: errors and valid are those
\* of the same settings with a non-empty password, and the warnings are those
\* warnings plus the one about the password.
C2_EmptyPasswordOneWarning ==
    (Validated /\ settings.password = "") =>
        LET other == validate([settings EXCEPT !.password = "secret"])
        IN  /\ validation.errors = other.errors
            /\ validation.valid = other.valid
            /\ Count(validation.warnings, PasswordWarning) = 1
            /\ Count(other.warnings, PasswordWarning) = 0
            /\ Len(validation.warnings) = Len(other.warnings) + 1
            /\ \A e \in Range(validation.errors) : e # PasswordWarning

C2_Witness ==
    /\ Validated
    /\ settings.password = ""
    /\ validation.valid
    /\ Len(validation.warnings) = 1


(***************************************************************************)
(* core/client.py and core/llm.py                                          *)
(***************************************************************************)

MaxHistory == 2

\* An entry of a message history: an object with role and content
\* attributes, a dict, or anything else.
HistoryItems ==
    {[form |-> "object", role |-> "user", content |-> "earlier question"],
     [form |-> "dict", role |-> "assistant", content |-> "earlier answer"],
     [form |-> "other", role |-> None, content |-> None]}

HistorySeqs == UNION {[1..n -> HistoryItems] : n \in 0..MaxHistory}

\* message_history is None, a list, or a MessageHistory object.
Histories ==
    {[container |-> "none", items |-> <<>>]}
    \cup [container : {"list", "MessageHistory"}, items : HistorySeqs]

SystemInstructions == {None, "", "You are a helpful assistant"}

InvokeArgs ==
    [input_text : {"Hello"}, message_history : Histories,
     system_instruction : SystemInstructions]

\* What the backend does with a request: the model handle cannot be obtained
\* (the server is unreachable), the request is rejected, the result carries a
\* content attribute, or the result has none and is rendered with str().
BackendOutcomes ==
    {[kind |-> "unreachable", text |-> ""], [kind |-> "rejected", text |-> ""]}
    \cup [kind : {"content", "plain"}, text : {"", "generated text"}]

Ok(v, sent) == [raised |-> FALSE, value |-> v, sent |-> sent]
Raised(what, sent) == [raised |-> TRUE, value |-> what, sent |-> sent]

\* LMStudioClient.respond and respond_with_history: get_llm, then one
\* model.respond(payload); the content attribute of the result if it has one,
\* str(result) otherwise.
ClientRespond(payload, backend) ==
    IF backend.kind = "unreachable" THEN Raised("backend error", <<>>)
    ELSE IF backend.kind = "rejected" THEN Raised("backend error", <<payload>>)
    ELSE Ok(backend.text, <<payload>>)

\* Python truthiness of the message_history argument.
HistoryTruthy(h) ==
    \/ h.container = "MessageHistory"
    \/ h.container = "list" /\ Len(h.items) > 0

\* The entries of the history that invoke turns into messages: from a
\* MessageHistory those with role and content attributes, from a list those
\* and the dicts.
RECURSIVE HistoryMessages(_, _)
HistoryMessages(container, items) ==
    IF items = <<>> THEN <<>>
    ELSE LET m == Head(items)
             keep == \/ m.form = "object"
                     \/ m.form = "dict" /\ container = "list"
         IN  (IF keep THEN <<[role |-> m.role, content |-> m.content]>> ELSE <<>>)
             \o HistoryMessages(container, Tail(items))

BuildMessages(args) ==
    LET sys == IF Truthy(args.system_instruction)
               THEN <<[role |-> "system", content |-> args.system_instruction]>>
               ELSE <<>>
        hist == IF HistoryTruthy(args.message_history)
                THEN HistoryMessages(args.message_history.container,
                                     args.message_history.items)
                ELSE <<>>
    IN  sys \o hist \o <<[role |-> "user", content |-> args.input_text]>>

InvokePayload(args) ==
    IF HistoryTruthy(args.message_history) \/ Truthy(args.system_instruction)
    THEN [kind |-> "messages", prompt |-> "", messages |-> BuildMessages(args)]
    ELSE [kind |-> "prompt", prompt |-> args.input_text, messages |-> <<>>]

\* A plausible slip: an empty completion is treated as a failure.
LLMInvoke_raise_on_empty(args, backend) ==
    LET r == ClientRespond(InvokePayload(args), backend)
    IN  IF r.raised \/ r.value = ""
        THEN Raised("RuntimeError: LMStudio LLM completion failed", r.sent)
        ELSE r

\* A plausible slip: the exception of the backend is swallowed and an empty
\* completion returned.
LLMInvoke_swallow(args, backend) ==
    LET r == ClientRespond(InvokePayload(args), backend)
    IN  IF r.raised THEN Ok("", r.sent) ELSE r

\* LMStudioLLM.invoke: whatever the client returns is returned; any exception
\* becomes a RuntimeError.
LLMInvoke(args, backend) ==
    LET r == ClientRespond(InvokePayload(args), backend)
    IN  IF r.raised
        THEN Raised("RuntimeError: LMStudio LLM completion failed", r.sent)
        ELSE r

LLMPending == [status |-> "pending", value |-> ""]

LLMInit ==
    /\ llmArgs \in InvokeArgs
    /\ llmBackend \in BackendOutcomes
    /\ llmSent = <<>>
    /\ llmOut = LLMPending

LLMIdle ==
    /\ llmArgs = [input_text |-> "Hello",
                  message_history |-> [container |-> "none", items |-> <<>>],
                  system_instruction |-> None]
    /\ llmBackend = [kind |-> "unreachable", text |-> ""]
    /\ llmSent = <<>>
    /\ llmOut = LLMPending

\* llm.invoke(input_text, message_history, system_instruction) runs.
Invoke ==
    /\ llmOut = LLMPending
    /\ LET r == LLMInvoke(llmArgs, llmBackend)
       IN  /\ llmOut' = [status |-> IF r.raised THEN "raised" ELSE "returned",
                         value |-> r.value]
           /\ llmSent' = llmSent \o r.sent
    /\ UNCHANGED <<llmArgs, llmBackend>>

BackendFailed == llmBackend.kind \in {"unreachable", "rejected"}
BackendEmpty == llmBackend.kind \in {"content", "plain"} /\ llmBackend.text = ""

C10_WitnessRaised == llmOut.status = "raised" /\ llmBackend.kind = "unreachable"

\* The turns of a history: its entries that carry a role and a content,
\* whether as attributes or as dict keys, in their original order.
RECURSIVE HistoryTurns(_)
HistoryTurns(items) ==
    IF items = <<>> THEN <<>>
    ELSE (IF Head(items).form \in {"object", "dict"}
          THEN <<[role |-> Head(items).role, content |-> Head(items).content]>>
          ELSE <<>>)
         \o HistoryTurns(Tail(items))

\* C24: when invoke is given a system instruction or a message history, the
\* message list sent to the backend is the system instruction first (if
\* any), then the history turns in their original order, then the current
\* prompt as the last user message; given neither, the prompt alone is sent.
C24_HistorySentInOrder ==
    llmSent # <<>> =>
        IF Truthy(llmArgs.system_instruction) \/ HistoryTruthy(llmArgs.message_history)
        THEN /\ llmSent[1].kind = "messages"
             /\ llmSent[1].messages
                   = (IF Truthy(llmArgs.system_instruction)
                      THEN <<[role |-> "system",
                              content |-> llmArgs.system_instruction]>>
                      ELSE <<>>)
                     \o HistoryTurns(llmArgs.message_history.items)
                     \o <<[role |-> "user", content |-> llmArgs.input_text]>>
        ELSE llmSent[1] = [kind |-> "prompt", prompt |-> llmArgs.input_text,
                           messages |-> <<>>]

LLMNext == Invoke


(***************************************************************************)
(* core/embeddings.py                                                      *)
(***************************************************************************)

MaxTexts == 3

Texts == {"a", "b"}
TextSeqs == UNION {[1..n -> Texts] : n \in 0..MaxTexts}

\* batch_size: two small sizes that split the input, and the default.
BatchSizes == {1, 2, 32}

Min(a, b) == IF a < b THEN a ELSE b

\* The embedding of a text, as a numpy array or as a list.
Embedding(t, form) == [of |-> t, form |-> form]
ToList(e) == [e EXCEPT !.form = "list"]

\* How the backend serves one batch:
\*   batch          embed_batch exists and answers (an array with tolist, or a list)
\*   fallback       embed_batch does not exist (AttributeError); embed answers
\*   batch_error    embed_batch fails with another exception
\*   fallback_error embed_batch does not exist and embed fails on the first text
BatchBehaviours ==
    [path : {"batch", "fallback"}, form : {"ndarray", "list"}]
    \cup {[path |-> "batch_error", form |-> "list"],
          [path |-> "fallback_error", form |-> "list"]}

\* A plausible slip: each slice runs one text too far, so neighbouring
\* batches overlap.
BatchSlice_overlapping(texts, i, size) ==
    SubSeq(texts, i + 1, Min(i + size + 1, Len(texts)))

\* texts[i:i + batch_size], with i counted from 0 as in the code.
BatchSlice(texts, i, size) == SubSeq(texts, i + 1, Min(i + size, Len(texts)))

\* embed_batch(batch): one embedding per text of the batch, in order; an array
\* result is converted element by element with tolist.
BatchEmbeddings(batch, form) ==
    [k \in DOMAIN batch |-> ToList(Embedding(batch[k], form))]

\* A plausible slip: each embedding is inserted at the front.
FallbackEmbeddings_reversed(batch, form) ==
    [k \in DOMAIN batch |-> ToList(Embedding(batch[Len(batch) + 1 - k], form))]

\* The per-item fallback: embed(text) for each text of the batch in order,
\* converted with tolist when it is an array, appended one by one.
FallbackEmbeddings(batch, form) ==
    [k \in DOMAIN batch |-> ToList(Embedding(batch[k], form))]

\* One iteration of the loop over the batches.
ProcessBatch(batch, b) ==
    CASE b.path = "batch" ->
            [raised |-> FALSE, embeddings |-> BatchEmbeddings(batch, b.form),
             sent |-> <<[call |-> "embed_batch", texts |-> batch]>>]
      [] b.path = "fallback" ->
            [raised |-> FALSE, embeddings |-> FallbackEmbeddings(batch, b.form),
             sent |-> [k \in DOMAIN batch |-> [call |-> "embed", texts |-> <<batch[k]>>]]]
      [] b.path = "batch_error" ->
            [raised |-> TRUE, embeddings |-> <<>>,
             sent |-> <<[call |-> "embed_batch", texts |-> batch]>>]
      [] OTHER ->
            [raised |-> TRUE, embeddings |-> <<>>,
             sent |-> <<[call |-> "embed", texts |-> <<batch[1]>>]>>]

\* for i in range(0, len(texts), batch_size): ... ; behaviours[n] is how the
\* backend serves the n-th batch.  The loop stops at the first exception.
RECURSIVE EmbedLoop(_, _, _, _, _)
EmbedLoop(texts, size, i, behaviours, st) ==
    IF i >= Len(texts) THEN st
    ELSE LET n == Len(st.paths) + 1
             r == ProcessBatch(BatchSlice(texts, i, size), behaviours[n])
             st2 == [raised |-> r.raised,
                     embeddings |-> st.embeddings \o r.embeddings,
                     sent |-> st.sent \o r.sent,
                     paths |-> Append(st.paths, behaviours[n])]
         IN  IF r.raised THEN st2
             ELSE EmbedLoop(texts, size, i + size, behaviours, st2)

\* LMStudioEmbedder.embed_documents
embed_documents(texts, size, behaviours) ==
    IF texts = <<>>
    THEN [raised |-> FALSE, embeddings |-> <<>>, sent |-> <<>>, paths |-> <<>>]
    ELSE EmbedLoop(texts, size, 0, behaviours,
                   [raised |-> FALSE, embeddings |-> <<>>, sent |-> <<>>, paths |-> <<>>])

\* The number of batches: len(range(0, len(texts), batch_size)).
NumBatches(texts, size) == (Len(texts) + size - 1) \div size

EmbPending == [status |-> "pending", embeddings |-> <<>>]

EmbInit ==
    /\ embTexts \in TextSeqs
    /\ embBatchSize \in BatchSizes
    /\ embPaths = <<>>
    /\ embSent = <<>>
    /\ embOut = EmbPending

EmbIdle ==
    /\ embTexts = <<>>
    /\ embBatchSize = 32
    /\ embPaths = <<>>
    /\ embSent = <<>>
    /\ embOut = EmbPending

\* embedder.embed_documents(texts) runs against a backend that serves each
\* batch in one of the ways of BatchBehaviours.
EmbedDocuments ==
    /\ embOut = EmbPending
    /\ \E behaviours \in [1..NumBatches(embTexts, embBatchSize) -> BatchBehaviours] :
          LET r == embed_documents(embTexts, embBatchSize, behaviours)
          IN  /\ embOut' = [status |-> IF r.raised THEN "raised" ELSE "returned",
                            embeddings |-> IF r.raised THEN <<>> ELSE r.embeddings]
              /\ embPaths' = r.paths
              /\ embSent' = r.sent
    /\ UNCHANGED <<embTexts, embBatchSize>>

\* C3: for every non-empty list of texts, embed_documents returns one
\* embedding per input text, in input order, whichever of the batch call and
\* the per-item fallback serves each batch.
C3_OneEmbeddingPerTextInOrder ==
    (embOut.status = "returned" /\ embTexts # <<>>) =>
        /\ Len(embOut.embeddings) = Len(embTexts)
        /\ \A k \in DOMAIN embTexts : embOut.embeddings[k].of = embTexts[k]

\* A run of C3 that mixes the paths: one batch served by embed_batch, another
\* by the fallback, over texts that differ.
C3_Witness ==
    /\ embOut.status = "returned"
    /\ Len(embTexts) >= 2
    /\ \E k \in DOMAIN embTexts : embTexts[k] # embTexts[1]
    /\ \E m, n \in DOMAIN embPaths :
          embPaths[m].path = "batch" /\ embPaths[n].path = "fallback"

\* The texts handed to the backend by a sequence of requests, in order.
RECURSIVE SentTexts(_)
SentTexts(sent) ==
    IF sent = <<>> THEN <<>> ELSE Head(sent).texts \o SentTexts(Tail(sent))

IsPrefix(p, s) == Len(p) <= Len(s) /\ p = SubSeq(s, 1, Len(p))

\* C23 as stated: embed_documents cuts its input into consecutive batches of
\* at most batch_size texts whose concatenation is the input, every text is
\* sent to the backend exactly once, and an empty input returns an empty
\* list without contacting the backend.
C23_EveryTextSentOnce ==
    embOut.status # "pending" =>
        /\ \A k \in DOMAIN embSent :
              Len(embSent[k].texts) \in 1..embBatchSize
        /\ SentTexts(embSent) = embTexts
        /\ embTexts = <<>> => (embOut.status = "returned" /\ embOut.embeddings = <<>>)

\* C23, amended: the requests carry consecutive groups of at most batch_size
\* texts, in input order.  When the call returns, their concatenation is the
\* input, so every text is sent exactly once; when a batch fails the call
\* raises at once, and the texts sent are the input up to and including the
\* failing request, so later texts are never sent.  An empty input returns
\* an empty list without contacting the backend.
C23_BatchesPartitionInput ==
    embOut.status # "pending" =>
        /\ \A k \in DOMAIN embSent :
              Len(embSent[k].texts) \in 1..embBatchSize
        /\ \A k \in DOMAIN embPaths :
              embPaths[k].path \in {"batch", "batch_error"} =>
                 \E n \in DOMAIN embSent :
                    /\ embSent[n].call = "embed_batch"
                    /\ embSent[n].texts
                          = BatchSlice(embTexts, (k - 1) * embBatchSize, embBatchSize)
        /\ embOut.status = "returned" =>
              /\ SentTexts(embSent) = embTexts
              /\ Len(embPaths) = NumBatches(embTexts, embBatchSize)
        /\ embOut.status = "raised" =>
              /\ embSent # <<>>
              /\ IsPrefix(SentTexts(embSent), embTexts)
        /\ embTexts = <<>> =>
              /\ embOut.status = "returned"
              /\ embOut.embeddings = <<>>
              /\ embSent = <<>>

\* Three texts with batch_size 2 went out as a batch of two and a batch of
\* one.
C23_Witness ==
    /\ embOut.status = "returned"
    /\ Len(embTexts) = 3
    /\ embBatchSize = 2
    /\ Len(embSent) = 2
    /\ embSent[1] = [call |-> "embed_batch", texts |-> SubSeq(embTexts, 1, 2)]
    /\ embSent[2] = [call |-> "embed_batch", texts |-> SubSeq(embTexts, 3, 3)]

EmbNext == EmbedDocuments


(***************************************************************************)
(* rag/vector_cypher_rag.py and rag/text2cypher_rag.py                     *)
(*                                                                         *)
(* One strategy instance is modelled; strat.kind says of which class.      *)
(* Retrievers and pipelines are objects: each has an identity (id) given   *)
(* at construction, and a pipeline holds the retriever it was built with.  *)
(* A retriever records the parameters its constructor was passed; for the  *)
(* examples it records both the list object passed (examples_ref) and the  *)
(* contents that list had at construction (examples).                      *)
(***************************************************************************)

MaxUpdates == 3

\* A keyword parameter that was not passed.
NoParam == "<absent>"

DefaultRetrievalQuery == "MATCH (node)<-[r:RATED]-() RETURN ... ORDER BY userRating DESC"

RetrievalQueries == {"MATCH (node) RETURN node.title", "RETURN missing_placeholder"}
Schemas == {"", "(:Person)-[:ACTED_IN]->(:Movie)", "(:Movie)-[:IN_GENRE]->(:Genre)"}
Examples == {"USER INPUT: 'q1' QUERY: c1", "USER INPUT: 'q2' QUERY: c2"}
ExampleLists == {<<>>} \cup {<<e>> : e \in Examples}
ExtraKwargs == {{}, {"result_formatter"}}

\* The constructor arguments of VectorCypherRAG and of Text2CypherRAG.
VCArgs == [retrieval_query : {None} \cup RetrievalQueries, kwargs : ExtraKwargs]
T2CArgs ==
    [neo4j_schema : {None} \cup Schemas,
     examples : [given : {TRUE}, items : ExampleLists]
                \cup {[given |-> FALSE, items |-> <<>>]},
     kwargs : ExtraKwargs]

NoRetriever ==
    [id |-> 0, cls |-> "none", driver |-> NoParam, embedder |-> NoParam,
     llm |-> NoParam, index_name |-> NoParam, retrieval_query |-> NoParam,
     neo4j_schema |-> NoParam, examples_ref |-> NoParam, examples |-> <<>>,
     kwargs |-> {}]

\* VectorCypherRetriever(driver=, index_name=, embedder=, retrieval_query=, **kwargs)
VectorCypherRetriever(id, s, kwargs) ==
    [NoRetriever EXCEPT !.id = id, !.cls = "VectorCypherRetriever",
                        !.driver = s.driver, !.index_name = s.index_name,
                        !.embedder = s.embedder,
                        !.retrieval_query = s.retrieval_query,
                        !.kwargs = kwargs]

\* Text2CypherRetriever(driver=, llm=, [neo4j_schema=], [examples=], **kwargs)
Text2CypherRetriever(id, s, ls, withSchema, withExamples, kwargs) ==
    [NoRetriever EXCEPT !.id = id, !.cls = "Text2CypherRetriever",
                        !.driver = s.driver, !.llm = s.cypher_llm,
                        !.neo4j_schema = IF withSchema THEN s.neo4j_schema ELSE NoParam,
                        !.examples_ref = IF withExamples THEN s.examples ELSE NoParam,
                        !.examples = IF withExamples THEN ls[s.examples] ELSE <<>>,
                        !.kwargs = kwargs]

\* GraphRAG(retriever=, llm=)
GraphRAG(id, retriever, llm) == [id |-> id, retriever |-> retriever, llm |-> llm]

World(s, ls, n) == [s |-> s, lists |-> ls, nextId |-> n]

\* self.rag_pipeline = GraphRAG(retriever=self.retriever, llm=self.llm)
AssignPipeline(w) ==
    [w EXCEPT !.s.rag_pipeline = GraphRAG(w.nextId, w.s.retriever, w.s.llm),
              !.nextId = @ + 1]

\* VectorCypherRAG.__init__
VCConstruct(args) ==
    LET s0 == [kind |-> "vector_cypher", driver |-> "driver",
               embedder |-> "embedder", llm |-> "llm", cypher_llm |-> NoParam,
               index_name |-> settings.index_name,
               retrieval_query |-> IF Truthy(args.retrieval_query)
                                   THEN args.retrieval_query
                                   ELSE DefaultRetrievalQuery,
               neo4j_schema |-> None, examples |-> NoParam,
               retriever |-> NoRetriever,
               rag_pipeline |-> GraphRAG(0, NoRetriever, NoParam)]
        s1 == [s0 EXCEPT !.retriever = VectorCypherRetriever(1, s0, args.kwargs)]
    IN  AssignPipeline(World(s1, [caller |-> <<>>, own |-> <<>>], 2))

\* Text2CypherRAG.__init__: self.examples is the caller's list when that is
\* non-empty and a fresh empty list otherwise.
T2CConstruct(args) ==
    LET ls == [caller |-> args.examples.items, own |-> <<>>]
        s0 == [kind |-> "text2cypher", driver |-> "driver",
               embedder |-> NoParam, llm |-> "llm", cypher_llm |-> "cypher_llm",
               index_name |-> NoParam, retrieval_query |-> NoParam,
               neo4j_schema |-> args.neo4j_schema,
               examples |-> IF args.examples.given /\ args.examples.items # <<>>
                            THEN "caller" ELSE "own",
               retriever |-> NoRetriever,
               rag_pipeline |-> GraphRAG(0, NoRetriever, NoParam)]
        s1 == [s0 EXCEPT !.retriever =
                   Text2CypherRetriever(1, s0, ls, Truthy(s0.neo4j_schema),
                                        ls[s0.examples] # <<>>, args.kwargs)]
    IN  AssignPipeline(World(s1, ls, 2))

\* update_retrieval_query, statement by statement.
URQ_SetQuery(w, q) == [w EXCEPT !.s.retrieval_query = q]
URQ_AssignRetriever(w) ==
    [w EXCEPT !.s.retriever = VectorCypherRetriever(w.nextId, w.s, {}),
              !.nextId = @ + 1]

\* VectorCypherRAG.update_retrieval_query
update_retrieval_query(w, q) == AssignPipeline(URQ_AssignRetriever(URQ_SetQuery(w, q)))

\* A plausible slip: the new examples are put in front of the old ones.
AE_Extend_prepend(w, new) == [w EXCEPT !.lists[w.s.examples] = new \o @]

\* add_examples, statement by statement: the list is extended in place.
AE_Extend(w, new) == [w EXCEPT !.lists[w.s.examples] = @ \o new]
AE_AssignRetriever(w) ==
    [w EXCEPT !.s.retriever =
                 Text2CypherRetriever(w.nextId, w.s, w.lists,
                                      Truthy(w.s.neo4j_schema), TRUE, {}),
              !.nextId = @ + 1]

\* Text2CypherRAG.add_examples
add_examples(w, new) == AssignPipeline(AE_AssignRetriever(AE_Extend(w, new)))

\* update_schema, statement by statement.
US_SetSchema(w, schema) == [w EXCEPT !.s.neo4j_schema = schema]
US_AssignRetriever(w) ==
    [w EXCEPT !.s.retriever =
                 Text2CypherRetriever(w.nextId, w.s, w.lists, TRUE,
                                      w.lists[w.s.examples] # <<>>, {}),
              !.nextId = @ + 1]

\* A plausible slip: the field is set and nothing is rebuilt.
update_schema_field_only(w, schema) == US_SetSchema(w, schema)

\* Text2CypherRAG.update_schema
update_schema(w, schema) == AssignPipeline(US_AssignRetriever(US_SetSchema(w, schema)))

\* The configuration a retriever works from.  A schema that is empty or was
\* not passed is no schema, and examples that were not passed are no examples.
Normal(x) == IF Truthy(x) /\ x # NoParam THEN x ELSE NoParam

RetrieverConfig(r, ls) ==
    [retrieval_query |-> r.retrieval_query,
     neo4j_schema |-> Normal(r.neo4j_schema),
     examples |-> r.examples,
     examples_now |-> IF r.examples_ref = NoParam THEN <<>> ELSE ls[r.examples_ref]]

\* The configuration the fields of the instance hold.
FieldConfig(s, ls) ==
    [retrieval_query |-> s.retrieval_query,
     neo4j_schema |-> Normal(s.neo4j_schema),
     examples |-> IF s.examples = NoParam THEN <<>> ELSE ls[s.examples],
     examples_now |-> IF s.examples = NoParam THEN <<>> ELSE ls[s.examples]]

\* Optional numeric arguments: the empty set is None, {v} is the value v.
TopKArgs == {{}, {0}, {3}}
ThresholdArgs == {{}, {0}, {8}}

\* A plausible slip: the caller's top_k is dropped.
TopKOrDefault_settings_only(top_k) == settings.top_k

\* top_k or self.settings.rag.top_k
TopKOrDefault(top_k) ==
    IF top_k = {} \/ top_k = {0} THEN settings.top_k ELSE CHOOSE k \in top_k : TRUE

NoCall ==
    [op |-> "none", retriever |-> 0, pipeline |-> 0,
     config |-> [retrieval_query |-> NoParam, neo4j_schema |-> NoParam,
                 examples |-> <<>>, examples_now |-> <<>>],
     top_k |-> 0, similarity_threshold |-> {},
     args |-> [top_k |-> {}, similarity_threshold |-> {}], stamp |-> 0]

\* search: self.rag_pipeline.search(...), which retrieves with the retriever
\* the pipeline was built with.
search(s, ls, top_k, similarity_threshold, stamp) ==
    [op |-> "search", retriever |-> s.rag_pipeline.retriever.id,
     pipeline |-> s.rag_pipeline.id,
     config |-> RetrieverConfig(s.rag_pipeline.retriever, ls),
     top_k |-> IF s.kind = "vector_cypher" THEN TopKOrDefault(top_k) ELSE 0,
     similarity_threshold |->
         IF s.kind = "vector_cypher" THEN similarity_threshold ELSE {},
     args |-> [top_k |-> top_k, similarity_threshold |-> similarity_threshold],
     stamp |-> stamp]

\* VectorCypherRAG.retrieve_only: self.retriever.search(...)
retrieve_only(s, ls, top_k, stamp) ==
    [op |-> "retrieve_only", retriever |-> s.retriever.id, pipeline |-> 0,
     config |-> RetrieverConfig(s.retriever, ls),
     top_k |-> TopKOrDefault(top_k), similarity_threshold |-> {},
     args |-> [top_k |-> top_k, similarity_threshold |-> {}],
     stamp |-> stamp]

NoSetupReport ==
    [flag |-> TRUE, components |-> <<>>, errors |-> <<>>, warnings |-> <<>>,
     probes |-> <<>>, outcomes |-> <<>>]

StratIdle ==
    /\ strat = [kind |-> "none"]
    /\ lists = [caller |-> <<>>, own |-> <<>>]
    /\ nextId = 1
    /\ supplied = NoCall.config
    /\ updates = 0
    /\ pc = "idle"
    /\ lastCall = NoCall
    /\ report = NoSetupReport

\* A freshly constructed strategy of either class.
StratInit ==
    /\ \E w \in {VCConstruct(a) : a \in VCArgs} \cup {T2CConstruct(a) : a \in T2CArgs} :
          /\ strat = w.s
          /\ lists = w.lists
          /\ nextId = w.nextId
          /\ supplied = FieldConfig(w.s, w.lists)
    /\ updates = 0
    /\ pc = "idle"
    /\ lastCall = NoCall
    /\ report = NoSetupReport

Install(w) ==
    /\ strat' = w.s
    /\ lists' = w.lists
    /\ nextId' = w.nextId

Now == World(strat, lists, nextId)

(* ---- a single caller: every call runs to completion ---- *)

UpdateRetrievalQuery ==
    /\ strat.kind = "vector_cypher" /\ updates < MaxUpdates
    /\ \E q \in RetrievalQueries :
          /\ Install(update_retrieval_query(Now, q))
          /\ supplied' = [supplied EXCEPT !.retrieval_query = q]
    /\ updates' = updates + 1
    /\ UNCHANGED <<pc, lastCall, report>>

AddExamples ==
    /\ strat.kind = "text2cypher" /\ updates < MaxUpdates
    /\ \E new \in ExampleLists :
          /\ Install(add_examples(Now, new))
          /\ supplied' = [supplied EXCEPT !.examples = @ \o new,
                                          !.examples_now = @ \o new]
    /\ updates' = updates + 1
    /\ UNCHANGED <<pc, lastCall, report>>

UpdateSchema ==
    /\ strat.kind = "text2cypher" /\ updates < MaxUpdates
    /\ \E schema \in Schemas :
          /\ Install(update_schema(Now, schema))
          /\ supplied' = [supplied EXCEPT !.neo4j_schema = Normal(schema)]
    /\ updates' = updates + 1
    /\ UNCHANGED <<pc, lastCall, report>>

Search ==
    /\ \E k \in TopKArgs, t \in ThresholdArgs :
          lastCall' = search(strat, lists, k, t, updates)
    /\ UNCHANGED <<strat, lists, nextId, supplied, updates, pc, report>>

RetrieveOnly ==
    /\ strat.kind = "vector_cypher"
    /\ \E k \in TopKArgs : lastCall' = retrieve_only(strat, lists, k, updates)
    /\ UNCHANGED <<strat, lists, nextId, supplied, updates, pc, report>>

\* C5: with a single caller, once an update call has returned the next
\* search uses a retriever and pipeline built from the configuration of the
\* most recent update of each kind: the pipeline installed is built on the
\* retriever installed, that retriever's traversal query, schema and examples
\* are the ones last supplied, and a search made since the last update used
\* them.
C5_SearchUsesLatestConfiguration ==
    /\ strat.rag_pipeline.retriever = strat.retriever
    /\ RetrieverConfig(strat.rag_pipeline.retriever, lists) = supplied
    /\ (lastCall.op = "search" /\ lastCall.stamp = updates) =>
          /\ lastCall.config = supplied
          /\ lastCall.retriever = strat.retriever.id

\* A search after two updates that changed the configuration.
C5_Witness ==
    /\ lastCall.op = "search"
    /\ lastCall.stamp = updates
    /\ updates >= 2
    /\ \/ lastCall.config.retrieval_query \in RetrievalQueries
       \/ /\ lastCall.config.neo4j_schema \in Schemas
          /\ lastCall.config.examples # <<>>


\* The caller passed a top_k / a similarity threshold to the last call.
TopKGiven(args) == args.top_k # {}
GivenValue(arg) == CHOOSE v \in arg : TRUE

\* C14 (original statement): search forwards the caller's top_k when one is
\* given and the Settings default otherwise, and forwards a similarity
\* threshold if and only if the caller set one; retrieve_only applies the
\* same top_k rule.
C14_CallerTopKForwarded ==
    (lastCall.op \in {"search", "retrieve_only"} /\ strat.kind = "vector_cypher") =>
        /\ lastCall.top_k = IF TopKGiven(lastCall.args)
                            THEN GivenValue(lastCall.args.top_k)
                            ELSE settings.top_k
        /\ lastCall.op = "search" =>
              lastCall.similarity_threshold = lastCall.args.similarity_threshold

\* C14 (amended): search forwards the caller's top_k when one other than 0
\* is given and the Settings default top_k when top_k is omitted or 0, and
\* forwards a similarity threshold, 0 included, if and only if the caller
\* set one: the Settings threshold is never applied.  retrieve_only applies
\* the same top_k rule and forwards no threshold.
C14_NonZeroTopKForwarded ==
    (lastCall.op \in {"search", "retrieve_only"} /\ strat.kind = "vector_cypher") =>
        /\ lastCall.top_k = IF TopKGiven(lastCall.args)
                               /\ GivenValue(lastCall.args.top_k) # 0
                            THEN GivenValue(lastCall.args.top_k)
                            ELSE settings.top_k
        /\ lastCall.op = "search" =>
              lastCall.similarity_threshold = lastCall.args.similarity_threshold
        /\ lastCall.op = "retrieve_only" => lastCall.similarity_threshold = {}

\* A search given top_k = 3 and a threshold of 0: both are forwarded.
C14_Witness ==
    /\ lastCall.op = "search"
    /\ strat.kind = "vector_cypher"
    /\ lastCall.args.top_k = {3}
    /\ lastCall.top_k = 3
    /\ lastCall.args.similarity_threshold = {0}
    /\ lastCall.similarity_threshold = {0}

\* The driver and the two model instances of a strategy.
Collaborators(s) == [driver |-> s.driver, llm |-> s.llm, cypher_llm |-> s.cypher_llm]

\* C25: on Text2CypherRAG, add_examples(new) makes the example list the
\* previous list followed by new and leaves the schema unchanged,
\* update_schema(s) sets the schema to s and leaves the example list
\* unchanged, both leave the driver and the two model instances unchanged,
\* and after either call the rebuilt retriever is configured with the
\* current schema and the current example list.
C25_UpdatesChangeOnlyTheirSetting ==
    [][/\ AddExamples =>
             /\ \E new \in ExampleLists :
                   /\ lists'[strat'.examples] = lists[strat.examples] \o new
                   /\ supplied'.examples = supplied.examples \o new
             /\ strat'.neo4j_schema = strat.neo4j_schema
       /\ UpdateSchema =>
             /\ \E schema \in Schemas :
                   /\ strat'.neo4j_schema = schema
                   /\ supplied'.neo4j_schema = Normal(schema)
             /\ lists'[strat'.examples] = lists[strat.examples]
       /\ (AddExamples \/ UpdateSchema) =>
             /\ Collaborators(strat') = Collaborators(strat)
             /\ strat'.retriever.id # strat.retriever.id
             /\ strat'.retriever.driver = strat'.driver
             /\ strat'.retriever.llm = strat'.cypher_llm
             /\ RetrieverConfig(strat'.retriever, lists') = FieldConfig(strat', lists')
             /\ strat'.rag_pipeline.retriever = strat'.retriever
      ]_vars

\* Two different examples were added one after the other and the schema was
\* replaced; the retriever in place holds all of it.
C25_Witness ==
    /\ strat.kind = "text2cypher"
    /\ updates = 3
    /\ Len(lists[strat.examples]) = 2
    /\ lists[strat.examples][1] # lists[strat.examples][2]
    /\ strat.neo4j_schema = "(:Movie)-[:IN_GENRE]->(:Genre)"
    /\ strat.retriever.examples = lists[strat.examples]
    /\ strat.retriever.neo4j_schema = strat.neo4j_schema

\* C26: an update call changes only the setting it names: the rebuilt
\* retriever keeps every other parameter the retriever was given at
\* construction, including the additional keyword parameters the
\* constructor passed on.
C26_RebuildKeepsOtherParameters ==
    [][/\ strat'.retriever.kwargs = strat.retriever.kwargs
       /\ strat'.retriever.driver = strat.retriever.driver
       /\ strat'.retriever.embedder = strat.retriever.embedder
       /\ strat'.retriever.llm = strat.retriever.llm
       /\ strat'.retriever.index_name = strat.retriever.index_name
       /\ UpdateRetrievalQuery =>
             /\ Normal(strat'.retriever.neo4j_schema) = Normal(strat.retriever.neo4j_schema)
             /\ strat'.retriever.examples = strat.retriever.examples
       /\ AddExamples =>
             Normal(strat'.retriever.neo4j_schema) = Normal(strat.retriever.neo4j_schema)
       /\ UpdateSchema =>
             /\ strat'.retriever.examples = strat.retriever.examples
             /\ strat'.retriever.retrieval_query = strat.retriever.retrieval_query
      ]_vars

\* C27: add_examples does not change any example list that existed before
\* the call: the list the caller passed to the constructor and the list
\* held by the previously built retriever keep their old contents.
C27_OldListsUntouched ==
    [][AddExamples =>
          /\ lists'.caller = lists.caller
          /\ strat.retriever.examples_ref # NoParam =>
                lists'[strat.retriever.examples_ref]
                   = lists[strat.retriever.examples_ref]
      ]_vars

(* ---- an update running while another thread calls search or          ---- *)
(* ---- retrieve_only: the update advances one statement at a time       ---- *)

\* update_retrieval_query is entered and self.retrieval_query assigned.
BeginUpdateRetrievalQuery ==
    /\ strat.kind = "vector_cypher" /\ pc = "idle" /\ updates < MaxUpdates
    /\ \E q \in RetrievalQueries :
          /\ Install(URQ_SetQuery(Now, q))
          /\ supplied' = [supplied EXCEPT !.retrieval_query = q]
    /\ updates' = updates + 1
    /\ pc' = "urq_retriever"
    /\ UNCHANGED <<lastCall, report>>

\* add_examples is entered and self.examples extended.
BeginAddExamples ==
    /\ strat.kind = "text2cypher" /\ pc = "idle" /\ updates < MaxUpdates
    /\ \E new \in ExampleLists :
          /\ Install(AE_Extend(Now, new))
          /\ supplied' = [supplied EXCEPT !.examples = @ \o new,
                                          !.examples_now = @ \o new]
    /\ updates' = updates + 1
    /\ pc' = "ae_retriever"
    /\ UNCHANGED <<lastCall, report>>

\* update_schema is entered and self.neo4j_schema assigned.
BeginUpdateSchema ==
    /\ strat.kind = "text2cypher" /\ pc = "idle" /\ updates < MaxUpdates
    /\ \E schema \in Schemas :
          /\ Install(US_SetSchema(Now, schema))
          /\ supplied' = [supplied EXCEPT !.neo4j_schema = Normal(schema)]
    /\ updates' = updates + 1
    /\ pc' = "us_retriever"
    /\ UNCHANGED <<lastCall, report>>

\* self.retriever = ...Retriever(...), in whichever update is running.
StepAssignRetriever ==
    /\ pc \in {"urq_retriever", "ae_retriever", "us_retriever"}
    /\ Install(CASE pc = "urq_retriever" -> URQ_AssignRetriever(Now)
                 [] pc = "ae_retriever" -> AE_AssignRetriever(Now)
                 [] OTHER -> US_AssignRetriever(Now))
    /\ pc' = "pipeline"
    /\ UNCHANGED <<supplied, updates, lastCall, report>>

\* self.rag_pipeline = GraphRAG(...), after which the update returns.
StepAssignPipeline ==
    /\ pc = "pipeline"
    /\ Install(AssignPipeline(Now))
    /\ pc' = "idle"
    /\ UNCHANGED <<supplied, updates, lastCall, report>>

\* C4: while an update runs concurrently with search or retrieve_only, at
\* every point a concurrent call can observe (between any two statements of
\* the update) the strategy's retriever and the retriever of its pipeline
\* are the same object built from the same configuration, and no search or
\* retrieve_only call has used a retriever the pipeline is not built on.
C4_NoHalfUpdatedConfiguration ==
    /\ strat.rag_pipeline.retriever.id = strat.retriever.id
    /\ RetrieverConfig(strat.rag_pipeline.retriever, lists)
          = RetrieverConfig(strat.retriever, lists)
    /\ lastCall.op = "retrieve_only" =>
          \/ lastCall.retriever = strat.rag_pipeline.retriever.id
          \/ lastCall.stamp < updates


(* ---- validate_setup ---- *)

FourthOutcomes == {"raise", "", "MATCH (n) RETURN n"}

\* What the collaborators do during one validate_setup: whether
\* driver.verify_connectivity succeeds, whether the embedding backend
\* answers, how the LLM backends answer, and the outcome of the trial
\* retrieval or generation (an exception, an empty or a non-empty result).
ProbeOutcomes(kind) ==
    IF kind = "vector_cypher"
    THEN [neo4j : BOOLEAN, embedder : BOOLEAN, llm : BackendOutcomes,
          cypher_llm : {[kind |-> "unreachable", text |-> ""]},
          fourth : FourthOutcomes]
    ELSE [neo4j : BOOLEAN, embedder : {TRUE}, llm : BackendOutcomes,
          cypher_llm : BackendOutcomes, fourth : FourthOutcomes]

TestArgs(text) ==
    [input_text |-> text,
     message_history |-> [container |-> "none", items |-> <<>>],
     system_instruction |-> None]

\* LMStudioEmbedder.validate_connection: embed_query in a try; True when it
\* returns, False when it raises.  It never raises itself.
EmbedderValidateConnection(backendOk) == [raised |-> FALSE, value |-> backendOk]

\* validation_results["components"][name] = ok
RecordComponent(r, name, ok) ==
    [r EXCEPT !.components = Append(@, [name |-> name, ok |-> ok]),
              !.probes = Append(@, name)]

\* The except branch of the first three probes.
RecordError(r, name, message) ==
    [r EXCEPT !.components = Append(@, [name |-> name, ok |-> FALSE]),
              !.probes = Append(@, name),
              !.errors = Append(@, message),
              !.flag = FALSE]

\* A plausible slip: the failure of the fourth probe is reported as an error.
RecordWarning_as_error(r, name, message) ==
    [r EXCEPT !.components = Append(@, [name |-> name, ok |-> FALSE]),
              !.probes = Append(@, name),
              !.errors = Append(@, message),
              !.flag = FALSE]

\* The except branch of the fourth probe.
RecordWarning(r, name, message) ==
    [r EXCEPT !.components = Append(@, [name |-> name, ok |-> FALSE]),
              !.probes = Append(@, name),
              !.warnings = Append(@, message)]

\* A plausible slip: the failure is recorded but the overall flag is kept.
Neo4jProbe_flag_kept(r, o) ==
    IF o.neo4j THEN RecordComponent(r, "neo4j", TRUE)
    ELSE [RecordError(r, "neo4j", "Neo4j connection failed") EXCEPT !.flag = r.flag]

\* self.driver.verify_connectivity()
Neo4jProbe(r, o) ==
    IF o.neo4j THEN RecordComponent(r, "neo4j", TRUE)
    ELSE RecordError(r, "neo4j", "Neo4j connection failed")

\* self.embedder.validate_connection(): its return value is not looked at.
EmbedderProbe(r, o) ==
    LET v == EmbedderValidateConnection(o.embedder)
    IN  IF v.raised THEN RecordError(r, "embedder", "Embedder validation failed")
        ELSE RecordComponent(r, "embedder", TRUE)

\* test_response = <llm>.invoke("Test"); components[name] = bool(test_response)
LLMProbe(r, name, backend, message) ==
    LET v == LLMInvoke(TestArgs("Test"), backend)
    IN  IF v.raised THEN RecordError(r, name, message)
        ELSE RecordComponent(r, name, v.value # "")

\* self.retrieve_only("test query", top_k=1): any result counts.
RetrievalProbe(r, o) ==
    IF o.fourth = "raise"
    THEN RecordWarning(r, "vector_cypher_retrieval", "Vector-Cypher retrieval test failed")
    ELSE RecordComponent(r, "vector_cypher_retrieval", TRUE)

\* The metadata of the result of retriever.search, a dict kept as a list of
\* entries: the retriever's name, and the generated query under "cypher"
\* unless the translation produced none.
SearchMetadata(outcome) ==
    <<[key |-> "__retriever", value |-> "Text2CypherRetriever"]>>
    \o (IF outcome = NoParam THEN <<>>
        ELSE <<[key |-> "cypher", value |-> outcome]>>)

\* d.get(key, default)
DictGet(d, key, default) ==
    IF \E k \in DOMAIN d : d[k].key = key
    THEN d[CHOOSE k \in DOMAIN d : d[k].key = key].value
    ELSE default

\* A plausible slip: a translation without a query is treated as a failure.
generate_cypher_strict(outcome) ==
    IF outcome \in {"raise", NoParam, ""}
    THEN Raised("RuntimeError: Cypher generation failed", <<>>)
    ELSE Ok(outcome, <<>>)

\* Text2CypherRAG.generate_cypher: the "cypher" entry of the result's
\* metadata, "" when there is none; an exception becomes a RuntimeError.
generate_cypher(outcome) ==
    IF outcome = "raise" THEN Raised("RuntimeError: Cypher generation failed", <<>>)
    ELSE Ok(DictGet(SearchMetadata(outcome), "cypher", ""), <<>>)

\* test_cypher = self.generate_cypher("What nodes exist?")
GenerationProbe(r, o) ==
    LET v == generate_cypher(o.fourth)
    IN  IF v.raised
        THEN RecordWarning(r, "cypher_generation", "Cypher generation test failed")
        ELSE RecordComponent(r, "cypher_generation", v.value # "")

\* VectorCypherRAG.validate_setup and Text2CypherRAG.validate_setup
validate_setup(kind, o) ==
    LET r0 == [NoSetupReport EXCEPT !.outcomes = <<o>>]
    IN  IF kind = "vector_cypher"
        THEN RetrievalProbe(
                 LLMProbe(EmbedderProbe(Neo4jProbe(r0, o), o),
                          "llm", o.llm, "LLM validation failed"), o)
        ELSE GenerationProbe(
                 LLMProbe(LLMProbe(Neo4jProbe(r0, o), "cypher_llm", o.cypher_llm,
                                   "Cypher LLM validation failed"),
                          "response_llm", o.llm, "Response LLM validation failed"), o)

\* strategy.validate_setup() runs; its fourth probe goes through the
\* installed retriever.
ValidateSetup ==
    /\ report = NoSetupReport
    /\ \E o \in ProbeOutcomes(strat.kind) :
          report' = validate_setup(strat.kind, o)
    /\ lastCall' = [retrieve_only(strat, lists, {1}, updates) EXCEPT
                       !.op = IF strat.kind = "vector_cypher"
                              THEN "retrieve_only" ELSE "generate_cypher"]
    /\ UNCHANGED <<strat, lists, nextId, supplied, updates, pc>>

Reported == report # NoSetupReport
Outcome == report.outcomes[1]

ComponentNames(r) == {r.components[k].name : k \in DOMAIN r.components}
ComponentOk(r, name) ==
    \E k \in DOMAIN r.components : r.components[k].name = name /\ r.components[k].ok

\* The probes of each strategy, and whether the probed component failed.
ProbeNames(kind) ==
    IF kind = "vector_cypher"
    THEN {"neo4j", "embedder", "llm", "vector_cypher_retrieval"}
    ELSE {"neo4j", "cypher_llm", "response_llm", "cypher_generation"}

LLMFailed(backend) == backend.kind \in {"unreachable", "rejected"}

ProbeFailed(kind, o, name) ==
    CASE name = "neo4j" -> ~o.neo4j
      [] name = "embedder" -> ~o.embedder
      [] name \in {"llm", "response_llm"} -> LLMFailed(o.llm)
      [] name = "cypher_llm" -> LLMFailed(o.cypher_llm)
      [] OTHER -> o.fourth = "raise"

\* C6: in the report of validate_setup the failure of any probed component
\* marks the whole report invalid: the overall flag is true only if every
\* entry of components is true, and every probe is run whatever the outcome
\* of the earlier ones.
C6_AnyFailureInvalidates ==
    Reported =>
        /\ report.flag => \A k \in DOMAIN report.components : report.components[k].ok
        /\ \A name \in ProbeNames(strat.kind) :
              ProbeFailed(strat.kind, Outcome, name) => ~report.flag
        /\ ComponentNames(report) = ProbeNames(strat.kind)

\* C7: validate_setup on a strategy whose database is unreachable returns a
\* report with the overall flag false and a non-empty errors list with an
\* entry naming the database, and still runs the model probes and records a
\* result for each of them in components.
C7_UnreachableDatabaseFailSoft ==
    (Reported /\ ~Outcome.neo4j) =>
        /\ ~report.flag
        /\ report.errors # <<>>
        /\ "Neo4j connection failed" \in Range(report.errors)
        /\ ProbeNames(strat.kind) \ {"neo4j"} \subseteq ComponentNames(report)
        /\ ProbeNames(strat.kind) \ {"neo4j"} \subseteq Range(report.probes)
        /\ ~ComponentOk(report, "neo4j")

\* An unreachable database with every model probe succeeding: the report is
\* invalid only on account of the database.
C7_Witness ==
    /\ Reported
    /\ ~Outcome.neo4j
    /\ Len(report.errors) = 1
    /\ strat.kind = "text2cypher"
    /\ ComponentOk(report, "cypher_llm")
    /\ ComponentOk(report, "response_llm")
    /\ ComponentOk(report, "cypher_generation")

\* The probes whose exception is an error: all but the fourth.  The
\* embedder probe never raises, so it never contributes one.
ErrorProbes(kind) == ProbeNames(kind) \ {"vector_cypher_retrieval", "cypher_generation"}

C29_WitnessAllFail ==
    /\ Reported
    /\ Len(report.errors) = 3
    /\ Len(report.warnings) = 1
    /\ Len(report.components) = 4
    /\ ~report.flag


(***************************************************************************)
(* utils/helpers.py: SchemaExtractor                                       *)
(*                                                                         *)
(* The catalog is a set of rows per mandatory query (the queries group by  *)
(* node type and relationship type and return DISTINCT patterns, so keys   *)
(* are unique), returned in an order the database chooses, and a list of   *)
(* rows for SHOW INDEXES and SHOW CONSTRAINTS.  A query can fail when it   *)
(* is submitted (session.run raises) or while its rows are iterated.       *)
(***************************************************************************)

PersonRow ==
    [key |-> ":Person",
     properties |-> <<[property |-> "name", types |-> "String"],
                      [property |-> "born", types |-> "Long"]>>]
MovieRow ==
    [key |-> ":Movie",
     properties |-> <<[property |-> "title", types |-> "String"],
                      [property |-> "released", types |-> "Long"]>>]
ActedInRow ==
    [key |-> ":ACTED_IN",
     properties |-> <<[property |-> "roles", types |-> "StringArray"]>>]
\* A relationship type without properties: the procedure reports it as one
\* row whose propertyName and propertyTypes are null.
DirectedRow ==
    [key |-> ":DIRECTED",
     properties |-> <<[property |-> None, types |-> None]>>]
ActedInPattern ==
    [relationshipType |-> "ACTED_IN", startNode |-> "Person", endNode |-> "Movie"]
DirectedPattern ==
    [relationshipType |-> "DIRECTED", startNode |-> "Person", endNode |-> "Movie"]
PlotIndexRow ==
    [name |-> "moviePlots", type |-> "VECTOR", labelsOrTypes |-> "Movie",
     properties |-> "plotEmbedding", state |-> "ONLINE"]
TitleIndexRow ==
    [name |-> "movie_title", type |-> "RANGE", labelsOrTypes |-> "Movie",
     properties |-> "title", state |-> "ONLINE"]
TitleConstraintRow ==
    [name |-> "movie_title", type |-> "UNIQUENESS", labelsOrTypes |-> "Movie",
     properties |-> "title"]

Catalogs ==
    {[nodes |-> {PersonRow, MovieRow}, relationships |-> {ActedInRow},
      patterns |-> {ActedInPattern, DirectedPattern},
      indexes |-> <<PlotIndexRow, TitleIndexRow>>,
      constraints |-> <<TitleConstraintRow>>],
     [nodes |-> {PersonRow}, relationships |-> {},
      patterns |-> {}, indexes |-> <<>>, constraints |-> <<>>],
     [nodes |-> {PersonRow, MovieRow}, relationships |-> {ActedInRow, DirectedRow},
      patterns |-> {ActedInPattern, DirectedPattern},
      indexes |-> <<PlotIndexRow>>, constraints |-> <<>>]}

\* The orders in which the database can return a set of rows.
Orders(S) ==
    {f \in [1..Cardinality(S) -> S] : \A i, j \in DOMAIN f : i # j => f[i] # f[j]}

\* How a query goes: it succeeds, it fails when submitted, or it fails after
\* some rows have been iterated (the field after counts them).
QueryModes(n) ==
    {[fails |-> FALSE, at |-> "none", after |-> n],
     [fails |-> TRUE, at |-> "run", after |-> 0]}
    \cup {[fails |-> TRUE, at |-> "iterate", after |-> k] : k \in 1..n}

\* The first failure among the driver and the three mandatory queries.
MandatoryFailures(cat) ==
    {[query |-> "none", mode |-> [fails |-> FALSE, at |-> "none", after |-> 0]],
     [query |-> "driver", mode |-> [fails |-> TRUE, at |-> "run", after |-> 0]]}
    \cup {[query |-> "nodes", mode |-> m] :
             m \in {x \in QueryModes(Cardinality(cat.nodes)) : x.fails}}
    \cup {[query |-> "relationships", mode |-> m] :
             m \in {x \in QueryModes(Cardinality(cat.relationships)) : x.fails}}
    \cup {[query |-> "patterns", mode |-> m] :
             m \in {x \in QueryModes(Cardinality(cat.patterns)) : x.fails}}

\* What happens during one extract_full_schema call.
ExtractionInputs(cat) ==
    LET first(S) == CHOOSE f \in Orders(S) : TRUE
    IN  {[failure |-> f, node_order |-> first(cat.nodes),
          relationship_order |-> first(cat.relationships),
          pattern_order |-> first(cat.patterns),
          index_mode |-> [fails |-> FALSE, at |-> "none", after |-> 0],
          constraint_mode |-> [fails |-> FALSE, at |-> "none", after |-> 0]] :
             f \in {x \in MandatoryFailures(cat) : x.mode.fails}}
        \cup [failure : {x \in MandatoryFailures(cat) : ~x.mode.fails},
              node_order : Orders(cat.nodes),
              relationship_order : Orders(cat.relationships),
              pattern_order : Orders(cat.patterns),
              index_mode : QueryModes(Len(cat.indexes)),
              constraint_mode : QueryModes(Len(cat.constraints))]

\* d[key] = value on a Python dict kept as a list of entries in insertion
\* order: an existing key keeps its place and takes the new value.
DictSet(d, key, value) ==
    IF \E k \in DOMAIN d : d[k].key = key
    THEN [k \in DOMAIN d |-> IF d[k].key = key THEN [key |-> key, value |-> value]
                                               ELSE d[k]]
    ELSE Append(d, [key |-> key, value |-> value])

\* {prop["property"]: prop["types"] for prop in properties}
RECURSIVE PropertiesDict(_)
PropertiesDict(properties) ==
    IF properties = <<>> THEN <<>>
    ELSE DictSet(PropertiesDict(SubSeq(properties, 1, Len(properties) - 1)),
                 properties[Len(properties)].property,
                 properties[Len(properties)].types)

\* for record in result: schema_info[...][record[key]] = {"properties": {...}}
RECURSIVE TypeDict(_)
TypeDict(rows) ==
    IF rows = <<>> THEN <<>>
    ELSE DictSet(TypeDict(SubSeq(rows, 1, Len(rows) - 1)),
                 rows[Len(rows)].key,
                 [properties |-> PropertiesDict(rows[Len(rows)].properties)])

PatternOf(row) ==
    [start_node |-> row.startNode, relationship |-> row.relationshipType,
     end_node |-> row.endNode]

\* A plausible slip: the pattern is assigned instead of appended.
AddPattern_assign(patterns, row) == <<PatternOf(row)>>

\* schema_info["patterns"].append(pattern)
AddPattern(patterns, row) == Append(patterns, PatternOf(row))

RECURSIVE PatternList(_)
PatternList(rows) ==
    IF rows = <<>> THEN <<>>
    ELSE AddPattern(PatternList(SubSeq(rows, 1, Len(rows) - 1)), rows[Len(rows)])

IndexInfo(row) ==
    [name |-> row.name, type |-> row.type, labels |-> row.labelsOrTypes,
     properties |-> row.properties, state |-> row.state]

ConstraintInfo(row) ==
    [name |-> row.name, type |-> row.type, labels |-> row.labelsOrTypes,
     properties |-> row.properties]

\* The rows a loop over a result gets to see before the query fails, if it does.
RowsRead(rows, mode) == IF mode.fails THEN SubSeq(rows, 1, mode.after) ELSE rows

\* A plausible slip: the optional query is not wrapped in its own try.
OptionalQueryRaises_unguarded(mode) == mode.fails

\* try: ... except Exception: pass -- around each optional query.
OptionalQueryRaises(mode) == FALSE

SchemaRaised(queries) ==
    [raised |-> TRUE, queries |-> queries,
     schema |-> [nodes |-> <<>>, relationships |-> <<>>, patterns |-> <<>>,
                 indexes |-> <<>>, constraints |-> <<>>]]

\* SchemaExtractor.extract_full_schema
extract_full_schema(cat, inp) ==
    LET f == inp.failure
        failed(q) == f.query = q
        read(q, rows) == IF failed(q) THEN RowsRead(rows, f.mode) ELSE rows
        nodes == TypeDict(read("nodes", inp.node_order))
        rels == TypeDict(read("relationships", inp.relationship_order))
        patterns == PatternList(read("patterns", inp.pattern_order))
        indexes == [k \in DOMAIN RowsRead(cat.indexes, inp.index_mode) |->
                       IndexInfo(cat.indexes[k])]
        constraints == [k \in DOMAIN RowsRead(cat.constraints, inp.constraint_mode) |->
                           ConstraintInfo(cat.constraints[k])]
    IN  CASE failed("driver") -> SchemaRaised(<<>>)
          [] failed("nodes") -> SchemaRaised(<<"nodes">>)
          [] failed("relationships") -> SchemaRaised(<<"nodes", "relationships">>)
          [] failed("patterns") ->
                SchemaRaised(<<"nodes", "relationships", "patterns">>)
          [] OTHER ->
                IF OptionalQueryRaises(inp.index_mode)
                THEN SchemaRaised(<<"nodes", "relationships", "patterns", "indexes">>)
                ELSE IF OptionalQueryRaises(inp.constraint_mode)
                THEN SchemaRaised(<<"nodes", "relationships", "patterns",
                                    "indexes", "constraints">>)
                ELSE [raised |-> FALSE,
                      queries |-> <<"nodes", "relationships", "patterns",
                                    "indexes", "constraints">>,
                      schema |-> [nodes |-> nodes, relationships |-> rels,
                                  patterns |-> patterns, indexes |-> indexes,
                                  constraints |-> constraints]]

\* What is kept of a call for comparison with the next one.
Summary(e) ==
    [status |-> e.status, catalog |-> e.catalog,
     nodes |-> Range(e.schema.nodes),
     relationships |-> Range(e.schema.relationships),
     patterns |-> Range(e.schema.patterns)]

NoExtraction ==
    [status |-> "none", catalog |-> [nodes |-> {}, relationships |-> {},
                                     patterns |-> {}, indexes |-> <<>>,
                                     constraints |-> <<>>],
     input |-> <<>>, queries |-> <<>>,
     schema |-> SchemaRaised(<<>>).schema]

SchemaInit ==
    /\ catalog \in Catalogs
    /\ extraction = NoExtraction
    /\ previous = Summary(NoExtraction)

SchemaIdle ==
    /\ catalog = NoExtraction.catalog
    /\ extraction = NoExtraction
    /\ previous = Summary(NoExtraction)

\* extractor.extract_full_schema() runs against the current catalog.
ExtractFullSchema ==
    /\ \E inp \in ExtractionInputs(catalog) :
          LET r == extract_full_schema(catalog, inp)
              status == IF r.raised THEN "raised" ELSE "returned"
          IN  extraction' = [status |-> status, catalog |-> catalog,
                             input |-> <<inp>>, queries |-> r.queries,
                             schema |-> r.schema]
    /\ previous' = Summary(extraction)
    /\ UNCHANGED catalog

\* The database's schema changes between calls.
ChangeCatalog ==
    /\ \E c \in Catalogs \ {catalog} : catalog' = c
    /\ UNCHANGED <<extraction, previous>>

Extracted == extraction.status # "none"
Input == extraction.input[1]
MandatoryFailed == Input.failure.mode.fails

\* C8 (original statement): if the index or the constraint query fails, the
\* failure is swallowed, the corresponding list in the returned schema is
\* empty, the other optional query is still run and the node, relationship
\* and pattern parts are returned; a failure of a mandatory query makes the
\* call raise.
C8_FailedOptionalListEmpty ==
    Extracted =>
        /\ MandatoryFailed <=> extraction.status = "raised"
        /\ (~MandatoryFailed /\ Input.index_mode.fails) =>
              extraction.schema.indexes = <<>>
        /\ (~MandatoryFailed /\ Input.constraint_mode.fails) =>
              extraction.schema.constraints = <<>>

\* C8 (amended): a failure of the index or of the constraint query is
\* swallowed and the corresponding list holds the rows read before the
\* failure: none when the query is rejected when submitted (as an
\* unsupported command is), the rows already iterated when it fails later.
\* Both optional queries are run whatever the other does, and the node,
\* relationship and pattern parts are returned in full.  A failure of the
\* driver or of one of the three mandatory queries makes the call raise.
C8_OptionalQueriesBestEffort ==
    Extracted =>
        /\ MandatoryFailed <=> extraction.status = "raised"
        /\ ~MandatoryFailed =>
              /\ Len(extraction.schema.indexes) = Input.index_mode.after
              /\ Len(extraction.schema.constraints) = Input.constraint_mode.after
              /\ \A k \in DOMAIN extraction.schema.indexes :
                    extraction.schema.indexes[k] = IndexInfo(extraction.catalog.indexes[k])
              /\ \A k \in DOMAIN extraction.schema.constraints :
                    extraction.schema.constraints[k]
                        = ConstraintInfo(extraction.catalog.constraints[k])
              /\ Input.index_mode.at = "run" => extraction.schema.indexes = <<>>
              /\ Input.constraint_mode.at = "run" => extraction.schema.constraints = <<>>
              /\ {"indexes", "constraints"} \subseteq Range(extraction.queries)
              /\ Cardinality(Range(extraction.schema.nodes))
                    = Cardinality(extraction.catalog.nodes)
              /\ Cardinality(Range(extraction.schema.relationships))
                    = Cardinality(extraction.catalog.relationships)
              /\ Range(extraction.schema.patterns)
                    = {PatternOf(p) : p \in extraction.catalog.patterns}

\* SHOW INDEXES rejected on a database that has nodes and patterns: the call
\* returns them, with no indexes, and still lists the constraints.
C8_Witness ==
    /\ extraction.status = "returned"
    /\ Input.index_mode.at = "run"
    /\ extraction.schema.indexes = <<>>
    /\ extraction.schema.constraints # <<>>
    /\ Len(extraction.schema.nodes) = 2
    /\ Len(extraction.schema.patterns) = 2

\* C9: two calls of extract_full_schema against an unchanged database yield
\* equal sets of node types, relationship types and patterns.
C9_ExtractionRepeatable ==
    (/\ extraction.status = "returned"
     /\ previous.status = "returned"
     /\ previous.catalog = extraction.catalog) =>
        /\ Range(extraction.schema.nodes) = previous.nodes
        /\ Range(extraction.schema.relationships) = previous.relationships
        /\ Range(extraction.schema.patterns) = previous.patterns

\* Two calls on the same catalog, the second after the database returned
\* the rows in another order than the first of Orders.
C9_Witness ==
    /\ extraction.status = "returned"
    /\ previous.status = "returned"
    /\ previous.catalog = extraction.catalog
    /\ Cardinality(previous.patterns) = 2
    /\ Cardinality(previous.nodes) = 2
    /\ extraction.schema.patterns[1] = PatternOf(DirectedPattern)
    /\ extraction.schema.nodes[1].key = MovieRow.key

(***************************************************************************)
(* core/client.py, core/llm.py, core/embeddings.py: the probes, and the    *)
(* requests one call sends to the backend                                  *)
(***************************************************************************)

\* How the embedding model answers embed(text): an array with tolist, a
\* list, or an exception.
EmbedOutcomes == {"ndarray", "list", "error"}

\* The values max_retries is configured with (settings.lmstudio.max_retries
\* and the embedder's constructor argument; 3 is the default of both).
MaxRetriesValues == {0, 1, 3}

\* LMStudioClient.get_llm: lms.llm() raises when the server cannot be reached.
get_llm(backend) ==
    IF backend.kind = "unreachable" THEN Raised("backend error", <<>>)
    ELSE Ok("model handle", <<>>)

\* A plausible slip: the probe is not wrapped in try/except.
health_check_unguarded(backend) ==
    LET model == get_llm(backend)
    IN  IF model.raised THEN model ELSE Ok(TRUE, <<>>)

\* LMStudioClient.health_check
health_check(backend) ==
    LET model == get_llm(backend)
    IN  IF model.raised THEN Ok(FALSE, <<>>) ELSE Ok(TRUE, <<>>)

\* LMStudioClient.validate_connection
client_validate_connection(backend) ==
    LET test_llm == get_llm(backend)
    IN  IF test_llm.raised THEN Ok(FALSE, <<>>) ELSE Ok(TRUE, <<>>)

\* LMStudioLLM.validate_connection: bool(self.invoke("Hello")), False on any
\* exception.
llm_validate_connection(backend) ==
    LET test_response == LLMInvoke(TestArgs("Hello"), backend)
    IN  IF test_response.raised THEN Ok(FALSE, test_response.sent)
        ELSE Ok(Truthy(test_response.value), test_response.sent)

RECURSIVE Repeat(_, _)
Repeat(x, n) == IF n = 0 THEN <<>> ELSE <<x>> \o Repeat(x, n - 1)

\* A plausible slip: a failed embedding request is sent again max_retries
\* times before the call gives up.
embed_query_retrying(self, text, outcome) ==
    IF outcome = "error"
    THEN Raised("RuntimeError: LMStudio embedding failed for query",
                Repeat(text, 1 + self.max_retries))
    ELSE Ok(ToList(Embedding(text, outcome)), <<text>>)

\* LMStudioEmbedder.embed_query: one embedding_model.embed(text); tolist()
\* when the result has it; any exception becomes a RuntimeError.
embed_query(self, text, outcome) ==
    IF outcome = "error"
    THEN Raised("RuntimeError: LMStudio embedding failed for query", <<text>>)
    ELSE Ok(ToList(Embedding(text, outcome)), <<text>>)

\* LMStudioEmbedder.validate_connection
embedder_validate_connection(self, outcome) ==
    LET e == embed_query(self, "test connection", outcome)
    IN  IF e.raised THEN Ok(FALSE, e.sent) ELSE Ok(TRUE, e.sent)

NoCoreCall ==
    [op |-> "none", args |-> TestArgs(""), backend |-> "none", max_retries |-> 0,
     raised |-> FALSE, value |-> "none", sent |-> <<>>]

CoreCall(op, args, backend, max_retries, r) ==
    [op |-> op, args |-> args, backend |-> backend, max_retries |-> max_retries,
     raised |-> r.raised, value |-> r.value, sent |-> r.sent]

CoreInit == coreCall = NoCoreCall
CoreIdle == coreCall = NoCoreCall

\* client.health_check()
HealthCheck ==
    \E b \in BackendOutcomes, n \in MaxRetriesValues :
        coreCall' = CoreCall("client.health_check", TestArgs(""), b, n,
                             health_check(b))

\* client.validate_connection()
ClientValidateConnection ==
    \E b \in BackendOutcomes, n \in MaxRetriesValues :
        coreCall' = CoreCall("client.validate_connection", TestArgs(""), b, n,
                             client_validate_connection(b))

\* llm.validate_connection()
LLMValidateConnection ==
    \E b \in BackendOutcomes, n \in MaxRetriesValues :
        coreCall' = CoreCall("llm.validate_connection", TestArgs("Hello"), b, n,
                             llm_validate_connection(b))

\* embedder.validate_connection()
EmbedderValidate ==
    \E o \in EmbedOutcomes, n \in MaxRetriesValues :
        coreCall' = CoreCall("embedder.validate_connection",
                             TestArgs("test connection"), o, n,
                             embedder_validate_connection([max_retries |-> n], o))

\* llm.invoke(...) with settings.lmstudio.max_retries = n
CoreInvoke ==
    \E a \in InvokeArgs, b \in BackendOutcomes, n \in MaxRetriesValues :
        coreCall' = CoreCall("llm.invoke", a, b, n, LLMInvoke(a, b))

\* embedder.embed_query(text) on an embedder built with max_retries = n
EmbedQuery ==
    \E t \in Texts, o \in EmbedOutcomes, n \in MaxRetriesValues :
        coreCall' = CoreCall("embedder.embed_query", TestArgs(t), o, n,
                             embed_query([max_retries |-> n], t, o))

ProbeOps ==
    {"client.health_check", "client.validate_connection",
     "llm.validate_connection", "embedder.validate_connection"}
HandleProbeOps == {"client.health_check", "client.validate_connection"}

\* The probe of the backend reached its end without an exception.
ProbeSucceeded ==
    CASE coreCall.op \in HandleProbeOps -> coreCall.backend.kind # "unreachable"
      [] coreCall.op = "llm.validate_connection" ->
            coreCall.backend.kind \in {"content", "plain"}
      [] coreCall.op = "embedder.validate_connection" -> coreCall.backend # "error"
      [] OTHER -> FALSE

RequestOps == {"llm.invoke", "embedder.embed_query"}

RequestFailed ==
    \/ coreCall.op = "llm.invoke"
          /\ coreCall.backend.kind \in {"unreachable", "rejected"}
    \/ coreCall.op = "embedder.embed_query" /\ coreCall.backend = "error"

\* C12 (original statement): each invoke sends exactly one generation
\* request and each embed_query exactly one embedding request, and a failed
\* request makes the call raise without another being sent, whatever
\* max_retries is.
C12_ExactlyOneRequest ==
    coreCall.op \in RequestOps =>
        /\ Len(coreCall.sent) = 1
        /\ RequestFailed => coreCall.raised

\* C12 (amended): a call never sends more than one request, whatever
\* max_retries is: embed_query sends exactly one embedding request; invoke
\* sends exactly one generation request once it has the model handle, and
\* none when the handle cannot be obtained.  A failure at either step makes
\* the call raise without anything further being sent.
C12_AtMostOneRequest ==
    coreCall.op \in RequestOps =>
        /\ Len(coreCall.sent) <= 1
        /\ coreCall.op = "embedder.embed_query" =>
              coreCall.sent = <<coreCall.args.input_text>>
        /\ coreCall.op = "llm.invoke" =>
              (Len(coreCall.sent) = 0 <=> coreCall.backend.kind = "unreachable")
        /\ coreCall.op = "llm.invoke" /\ coreCall.sent # <<>> =>
              coreCall.sent = <<InvokePayload(coreCall.args)>>
        /\ RequestFailed <=> coreCall.raised

\* A failed embedding request on an embedder configured to retry three
\* times: one request, then the error.
C12_Witness ==
    /\ coreCall.op = "embedder.embed_query"
    /\ coreCall.max_retries = 3
    /\ coreCall.backend = "error"
    /\ coreCall.raised
    /\ Len(coreCall.sent) = 1

(***************************************************************************)
(* rag/vector_cypher_rag.py: when a traversal query is checked             *)
(***************************************************************************)

\* A template the database cannot execute.
Malformed(q) == q = "RETURN missing_placeholder"

\* A plausible slip: the template is checked when it is installed.
UpdateRetrievalQueryCall_eager(w, q) ==
    IF Malformed(q) THEN [raised |-> TRUE, world |-> w]
    ELSE [raised |-> FALSE, world |-> update_retrieval_query(w, q)]

\* update_retrieval_query as a call: three assignments, no check of the
\* template and no try, so it returns normally.
UpdateRetrievalQueryCall(w, q) ==
    [raised |-> FALSE, world |-> update_retrieval_query(w, q)]

\* What running a retrieval does: the template of the retriever used is
\* executed by the database, and its error propagates out of search and
\* retrieve_only, which catch nothing.
RetrievalRaises(call) == Malformed(call.config.retrieval_query)

NoOutcome == [op |-> "none", arg |-> NoParam, raised |-> FALSE]

LazyInit == callOutcome = NoOutcome
LazyIdle == callOutcome = NoOutcome

\* rag.update_retrieval_query(q)
CallUpdateRetrievalQuery ==
    /\ strat.kind = "vector_cypher" /\ updates < MaxUpdates
    /\ \E q \in RetrievalQueries :
          LET r == UpdateRetrievalQueryCall(Now, q)
          IN  /\ Install(r.world)
              /\ supplied' = IF r.raised THEN supplied
                             ELSE [supplied EXCEPT !.retrieval_query = q]
              /\ callOutcome' = [op |-> "update_retrieval_query", arg |-> q,
                             raised |-> r.raised]
    /\ updates' = updates + 1
    /\ UNCHANGED <<pc, lastCall, report>>

\* rag.search(...)
CallSearch ==
    /\ strat.kind = "vector_cypher"
    /\ \E k \in TopKArgs, t \in ThresholdArgs :
          LET call == search(strat, lists, k, t, updates)
          IN  /\ lastCall' = call
              /\ callOutcome' = [op |-> "search", arg |-> call.config.retrieval_query,
                             raised |-> RetrievalRaises(call)]
    /\ UNCHANGED <<strat, lists, nextId, supplied, updates, pc, report>>

\* rag.retrieve_only(...)
CallRetrieveOnly ==
    /\ strat.kind = "vector_cypher"
    /\ \E k \in TopKArgs :
          LET call == retrieve_only(strat, lists, k, updates)
          IN  /\ lastCall' = call
              /\ callOutcome' = [op |-> "retrieve_only",
                             arg |-> call.config.retrieval_query,
                             raised |-> RetrievalRaises(call)]
    /\ UNCHANGED <<strat, lists, nextId, supplied, updates, pc, report>>

\* C13: update_retrieval_query never raises on account of the content of
\* the new template, a template the database cannot execute included, and
\* installs it in the strategy, the retriever and the pipeline; the error is
\* raised when a retrieval executes the template, and by every retrieval
\* made while it is installed.
C13_TemplateCheckedAtExecution ==
    /\ callOutcome.op = "update_retrieval_query" =>
          /\ ~callOutcome.raised
          /\ strat.retrieval_query = callOutcome.arg
          /\ strat.retriever.retrieval_query = callOutcome.arg
          /\ strat.rag_pipeline.retriever = strat.retriever
    /\ callOutcome.op \in {"search", "retrieve_only"} =>
          /\ callOutcome.raised <=> Malformed(strat.retrieval_query)
          /\ callOutcome.arg = strat.retrieval_query

\* A template that cannot be executed was installed by an update, and the
\* search after it raised.
C13_Witness ==
    /\ callOutcome.op = "search"
    /\ callOutcome.raised
    /\ updates > 0
    /\ Malformed(strat.retrieval_query)
    /\ supplied.retrieval_query = strat.retrieval_query

(***************************************************************************)
(* rag/text2cypher_rag.py: generate_cypher and execute_cypher              *)
(***************************************************************************)

MaxRows == 2

\* What retriever.search does for generate_cypher: it raises, or returns a
\* result whose metadata holds the generated query, possibly empty, or no
\* query at all.
TranslationOutcomes == {"raise", NoParam, "", "MATCH (n) RETURN n"}

Questions == {"What nodes exist?", "Who acted in Heat?"}

CypherQueries == {"MATCH (m:Movie) RETURN m.title AS title", "MATCH (m", ""}

\* A result record: its fields in order, as <<key, value>> pairs.
Records ==
    {<<<<"title", "Alien">>, <<"year", "1979">>>>,
     <<<<"title", "Heat">>, <<"year", "1995">>>>,
     <<<<"title", "Heat">>>>}

ResultRows == UNION {[1..n -> Records] : n \in 0..MaxRows}

\* record.data(): the mapping from each key of the record to its value.
RecordData(record) ==
    [k \in {record[i][1] : i \in DOMAIN record} |->
        record[CHOOSE i \in DOMAIN record : record[i][1] = k][2]]

\* A plausible slip: a failed query is run a second time.
execute_cypher_retry(cypher_query, rows, mode) ==
    IF mode.fails
    THEN Raised("RuntimeError: Cypher execution failed", <<cypher_query, cypher_query>>)
    ELSE Ok([i \in DOMAIN rows |-> RecordData(rows[i])], <<cypher_query>>)

\* Text2CypherRAG.execute_cypher: one session.run(cypher_query), then
\* record.data() for each record in order; any exception, at run or while
\* the records are read, becomes a RuntimeError.
execute_cypher(cypher_query, rows, mode) ==
    IF mode.fails
    THEN Raised("RuntimeError: Cypher execution failed", <<cypher_query>>)
    ELSE Ok([i \in DOMAIN rows |-> RecordData(rows[i])], <<cypher_query>>)

NoCypherCall ==
    [op |-> "none", arg |-> "", translation |-> NoParam, rows |-> <<>>,
     mode |-> [fails |-> FALSE, at |-> "none", after |-> 0],
     raised |-> FALSE, value |-> <<>>, ran |-> <<>>]

CypherInit == cypherCall = NoCypherCall
CypherIdle == cypherCall = NoCypherCall

\* rag.generate_cypher(query_text)
GenerateCypher ==
    \E q \in Questions, o \in TranslationOutcomes :
        LET r == generate_cypher(o)
        IN  cypherCall' = [NoCypherCall EXCEPT
                              !.op = "generate_cypher", !.arg = q,
                              !.translation = o, !.raised = r.raised,
                              !.value = <<r.value>>]

\* rag.execute_cypher(cypher_query)
ExecuteCypher ==
    \E q \in CypherQueries, rows \in ResultRows :
        \E mode \in QueryModes(Len(rows)) :
            LET r == execute_cypher(q, rows, mode)
            IN  cypherCall' = [NoCypherCall EXCEPT
                                  !.op = "execute_cypher", !.arg = q,
                                  !.rows = rows, !.mode = mode,
                                  !.raised = r.raised,
                                  !.value = IF r.raised THEN <<>> ELSE r.value,
                                  !.ran = r.sent]

\* C15: generate_cypher returns the query string produced by the
\* translation step unchanged, and returns the empty string, not an error,
\* when the translation yields no query; it raises only when the
\* translation step itself raises.
C15_GeneratedQueryUnchanged ==
    cypherCall.op = "generate_cypher" =>
        /\ cypherCall.raised <=> cypherCall.translation = "raise"
        /\ cypherCall.translation \notin {"raise", NoParam} =>
              cypherCall.value = <<cypherCall.translation>>
        /\ cypherCall.translation = NoParam => cypherCall.value = <<"">>

\* The translation returned a result without a query.
C15_Witness ==
    /\ cypherCall.op = "generate_cypher"
    /\ cypherCall.translation = NoParam
    /\ ~cypherCall.raised
    /\ cypherCall.value = <<"">>

\* C16: execute_cypher passes the query string to the database unmodified
\* and runs it exactly once; on success it returns one mapping per result
\* row in the order the database returned them, and when the database
\* rejects the query, or fails while the rows are read, it raises without
\* running the query again.
C16_QueryRunOnceUnmodified ==
    cypherCall.op = "execute_cypher" =>
        /\ cypherCall.ran = <<cypherCall.arg>>
        /\ cypherCall.raised <=> cypherCall.mode.fails
        /\ ~cypherCall.raised =>
              /\ Len(cypherCall.value) = Len(cypherCall.rows)
              /\ \A i \in DOMAIN cypherCall.rows :
                    /\ DOMAIN cypherCall.value[i]
                          = {cypherCall.rows[i][j][1] : j \in DOMAIN cypherCall.rows[i]}
                    /\ \A j \in DOMAIN cypherCall.rows[i] :
                          cypherCall.value[i][cypherCall.rows[i][j][1]]
                              = cypherCall.rows[i][j][2]

\* Two different rows came back and were returned in the database's order.
C16_Witness ==
    /\ cypherCall.op = "execute_cypher"
    /\ ~cypherCall.raised
    /\ Len(cypherCall.value) = 2
    /\ cypherCall.value[1]["title"] = "Heat"
    /\ cypherCall.value[2]["title"] = "Alien"
    /\ cypherCall.ran = <<cypherCall.arg>>

(***************************************************************************)
(* rag/vector_cypher_rag.py, rag/text2cypher_rag.py: close, __enter__ and  *)
(* __exit__                                                                *)
(***************************************************************************)

MaxBlockCalls == 3
MaxEntries == 2

\* A constructed strategy of either class about to be used in a with
\* statement; its driver was created by the constructor or passed in.
Constructed(kind, own) ==
    [kind |-> kind, own_driver |-> own, phase |-> "constructed",
     driver_open |-> TRUE, close_calls |-> 0, block_calls |-> 0, entries |-> 0,
     block_raised |-> FALSE, suppressed |-> FALSE, propagated |-> FALSE]

\* close(): self.driver.close() -- the attribute always exists once the
\* constructor has returned.
close(c) == [c EXCEPT !.driver_open = FALSE, !.close_calls = @ + 1]

\* __enter__(): return self
Enter(c) == [c EXCEPT !.phase = "inside"]

\* A plausible slip: the driver is closed only when the block succeeded.
Exit_on_success_only(c, exc) ==
    [(IF exc THEN c ELSE close(c)) EXCEPT
        !.phase = "exited", !.block_raised = exc,
        !.suppressed = FALSE, !.propagated = exc]

\* __exit__(exc_type, exc_val, exc_tb): self.close(), and None is returned,
\* so the with statement re-raises the block's exception if there is one.
Exit(c, exc) ==
    LET returned == FALSE  \* None is falsy: the exception is not suppressed
    IN  [close(c) EXCEPT
            !.phase = "exited", !.block_raised = exc,
            !.suppressed = returned, !.propagated = exc /\ ~returned]

ContextInit ==
    ctx \in {Constructed(k, o) : k \in {"vector_cypher", "text2cypher"},
                                 o \in BOOLEAN}

ContextIdle == ctx = [Constructed("none", FALSE) EXCEPT !.phase = "none"]

\* with rag: -- the block is entered (again, if the strategy is reused).
EnterBlock ==
    /\ ctx.phase \in {"constructed", "exited"}
    /\ ctx.entries < MaxEntries
    /\ ctx' = [Enter(ctx) EXCEPT !.entries = @ + 1, !.block_raised = FALSE,
                                 !.propagated = FALSE]

\* A call inside the block returns.
BlockCall ==
    /\ ctx.phase = "inside"
    /\ ctx.block_calls < MaxBlockCalls
    /\ ctx' = [ctx EXCEPT !.block_calls = @ + 1]

\* rag.close() is called inside the block.
BlockClose ==
    /\ ctx.phase = "inside"
    /\ ctx.block_calls < MaxBlockCalls
    /\ ctx' = [close(ctx) EXCEPT !.block_calls = @ + 1]

\* The block runs to its end and __exit__(None, None, None) is called.
BlockCompletes ==
    /\ ctx.phase = "inside"
    /\ ctx' = Exit(ctx, FALSE)

\* A statement of the block raises and __exit__ is called with the exception.
BlockRaises ==
    /\ ctx.phase = "inside"
    /\ ctx' = Exit(ctx, TRUE)

\* C17: when a strategy is used as a context manager its graph driver is
\* closed when the block exits, whether the block completed or raised, and
\* an exception raised inside the block still propagates to the caller.
C17_DriverClosedOnExit ==
    ctx.phase = "exited" =>
        /\ ~ctx.driver_open
        /\ ctx.close_calls >= 1
        /\ ctx.block_raised => ctx.propagated
        /\ ~ctx.block_raised => ~ctx.propagated

\* The block raised after two calls while the driver was still open.
C17_Witness ==
    /\ ctx.phase = "exited"
    /\ ctx.block_raised
    /\ ctx.propagated
    /\ ctx.block_calls = 2
    /\ ctx.close_calls = 1
    /\ ~ctx.driver_open

(***************************************************************************)
(* config/settings.py and core/client.py: the process-wide Settings and    *)
(* client; rag/*.py: what the strategy constructors create from them       *)
(***************************************************************************)

MaxObjects == 2

GoodSettings ==
    [api_host |-> "localhost:1234", chat_model |-> "llama",
     embedding_model |-> "nomic", temperature |-> 7, uri |-> "bolt://db",
     username |-> "neo4j", password |-> "secret", top_k |-> 5,
     similarity_threshold |-> 7, index_name |-> "moviePlots"]

\* The settings the environment can describe: valid ones, and ones
\* validate() reports invalid (top_k of 0, no chat model, no URI).
EnvSettings ==
    {GoodSettings, [GoodSettings EXCEPT !.top_k = 0],
     [GoodSettings EXCEPT !.chat_model = ""], [GoodSettings EXCEPT !.uri = ""]}

Hosts == {"localhost:1234", "gpu-box:1234"}

NoInstance == [id |-> 0]

\* Settings(): a new instance whose values are loaded from the environment.
SettingsNew(p, values) ==
    [p |-> [p EXCEPT !.sid = @ + 1], value |-> [id |-> p.sid, values |-> values]]

\* A plausible slip: every call builds a new Settings.
get_settings_fresh(p, e) ==
    LET n == SettingsNew(p, e.settings)
    IN  [p |-> [n.p EXCEPT !.settings = n.value], constructed |-> TRUE,
         value |-> n.value]

\* get_settings(): _settings is built on first use and returned.
get_settings(p, e) ==
    IF p.settings = NoInstance
    THEN LET n == SettingsNew(p, e.settings)
         IN  [p |-> [n.p EXCEPT !.settings = n.value], constructed |-> TRUE,
              value |-> n.value]
    ELSE [p |-> p, constructed |-> FALSE, value |-> p.settings]

\* set_settings(settings)
set_settings(p, s) == [p EXCEPT !.settings = s]

\* lms.configure_default_client(host): the SDK's process-wide default host.
configure_default_client(p, host) ==
    [p EXCEPT !.default_host = host, !.configure_calls = @ + 1]

\* LMStudioClient(server_host): the host given or the environment's, which
\* becomes the SDK's default.
LMStudioClientInit(p, server_host, e) ==
    LET host == IF Truthy(server_host) THEN server_host ELSE e.host
    IN  [p |-> [configure_default_client(p, host) EXCEPT !.cid = @ + 1],
         value |-> [id |-> p.cid, server_host |-> host]]

\* A plausible slip: every call builds a new client.
get_client_fresh(p, e) ==
    LET n == LMStudioClientInit(p, None, e)
    IN  [p |-> [n.p EXCEPT !.client = n.value], constructed |-> TRUE,
         value |-> n.value]

\* get_client(): _client is built on first use and returned.
get_client(p, e) ==
    IF p.client = NoInstance
    THEN LET n == LMStudioClientInit(p, None, e)
         IN  [p |-> [n.p EXCEPT !.client = n.value], constructed |-> TRUE,
              value |-> n.value]
    ELSE [p |-> p, constructed |-> FALSE, value |-> p.client]

\* set_client(client)
set_client(p, c) == [p EXCEPT !.client = c]

\* LMStudioEmbedder() / LMStudioLLM(): get_client(), then a model handle
\* from the backend, which raises when the backend is down.
ModelInit(p, e, backend_up) ==
    LET c == get_client(p, e)
    IN  IF backend_up
        THEN [p |-> [c.p EXCEPT !.handles = @ + 1], raised |-> FALSE]
        ELSE [p |-> c.p, raised |-> TRUE]

\* self.driver: GraphDatabase.driver(settings.neo4j.uri, ...) unless a
\* driver is passed in; the driver rejects an empty URI.
DriverInit(p, s, driver_given) ==
    IF driver_given THEN [p |-> p, raised |-> FALSE]
    ELSE IF s.values.uri = "" THEN [p |-> p, raised |-> TRUE]
    ELSE [p |-> [p EXCEPT !.drivers = @ + 1], raised |-> FALSE]

\* VectorCypherRAG.__init__ and Text2CypherRAG.__init__ with no embedder or
\* LLM passed in: get_settings(), the driver, two models (embedder and LLM,
\* or the two LLMs), then retriever and pipeline.  validate() is not called.
StrategyInit(kind, p, e, driver_given, backend_up) ==
    LET g == get_settings(p, e)
        d == DriverInit(g.p, g.value, driver_given)
        m1 == ModelInit(d.p, e, backend_up)
        m2 == ModelInit(m1.p, e, backend_up)
        raised == d.raised \/ m1.raised \/ m2.raised
        after == IF d.raised THEN d.p ELSE IF m1.raised THEN m1.p ELSE m2.p
    IN  [p |-> IF raised THEN after ELSE [after EXCEPT !.strategies = @ + 1],
         settings |-> g.value, constructed |-> g.constructed, raised |-> raised]

NoProcOp ==
    [op |-> "none", constructed |-> FALSE, was_none |-> FALSE, returned |-> 0,
     arg |-> "", before |-> "", settings |-> NoInstance, raised |-> FALSE,
     drivers |-> 0, handles |-> 0]

ProcessIdle ==
    /\ env = [settings |-> GoodSettings, host |-> "localhost:1234"]
    /\ proc = [settings |-> NoInstance, client |-> NoInstance, spare |-> NoInstance,
               default_host |-> "localhost:1234", configure_calls |-> 0,
               sid |-> 1, cid |-> 1, drivers |-> 0, handles |-> 0,
               strategies |-> 0, attempts |-> 0,
               prev_get |-> 0, last_set |-> 0, client_builds |-> 0]
    /\ procOp = NoProcOp

\* A process that has just imported the package.
ProcessInit ==
    /\ env \in [settings : EnvSettings, host : Hosts]
    /\ proc = [settings |-> NoInstance, client |-> NoInstance, spare |-> NoInstance,
               default_host |-> "localhost:1234", configure_calls |-> 0,
               sid |-> 1, cid |-> 1, drivers |-> 0, handles |-> 0,
               strategies |-> 0, attempts |-> 0,
               prev_get |-> 0, last_set |-> 0, client_builds |-> 0]
    /\ procOp = NoProcOp

\* get_settings()
GetSettings ==
    /\ proc.sid <= MaxObjects
    /\ LET g == get_settings(proc, env)
       IN  /\ proc' = [g.p EXCEPT !.prev_get = g.value.id]
           /\ procOp' = [NoProcOp EXCEPT
                            !.op = "get_settings", !.constructed = g.constructed,
                            !.was_none = (proc.settings = NoInstance),
                            !.returned = g.value.id, !.before = proc.prev_get]
    /\ UNCHANGED env

\* set_settings(Settings(...)) with an instance the caller built.
SetSettings ==
    /\ proc.sid <= MaxObjects
    /\ \E v \in EnvSettings :
          LET n == SettingsNew(proc, v)
          IN  /\ proc' = [set_settings(n.p, n.value) EXCEPT
                             !.prev_get = 0, !.last_set = n.value.id]
              /\ procOp' = [NoProcOp EXCEPT !.op = "set_settings",
                                            !.returned = n.value.id]
    /\ UNCHANGED env

\* get_client()
GetClient ==
    /\ proc.cid <= MaxObjects
    /\ LET g == get_client(proc, env)
       IN  /\ proc' = [g.p EXCEPT !.client_builds =
                                     IF g.constructed THEN @ + 1 ELSE @]
           /\ procOp' = [NoProcOp EXCEPT
                            !.op = "get_client", !.constructed = g.constructed,
                            !.was_none = (proc.client = NoInstance),
                            !.returned = g.value.id, !.arg = g.value.server_host,
                            !.before = proc.default_host]
    /\ UNCHANGED env

\* LMStudioClient(server_host) built by the caller.
ConstructClient ==
    /\ proc.cid <= MaxObjects
    /\ \E h \in Hosts \cup {None} :
          LET n == LMStudioClientInit(proc, h, env)
          IN  /\ proc' = [n.p EXCEPT !.spare = n.value]
              /\ procOp' = [NoProcOp EXCEPT
                               !.op = "LMStudioClient", !.constructed = TRUE,
                               !.returned = n.value.id,
                               !.arg = n.value.server_host,
                               !.before = proc.default_host]
    /\ UNCHANGED env

\* set_client(client) with the client the caller built last.
SetClient ==
    /\ proc.spare # NoInstance
    /\ proc' = [set_client(proc, proc.spare) EXCEPT !.client_builds = 0]
    /\ procOp' = [NoProcOp EXCEPT !.op = "set_client",
                                  !.returned = proc.spare.id]
    /\ UNCHANGED env

\* VectorCypherRAG(...) or Text2CypherRAG(...) is constructed.
ConstructStrategy ==
    /\ proc.attempts < MaxObjects
    /\ proc.sid <= MaxObjects /\ proc.cid <= MaxObjects
    /\ \E kind \in {"vector_cypher", "text2cypher"}, given \in BOOLEAN,
          up \in BOOLEAN :
          LET r == StrategyInit(kind, proc, env, given, up)
          IN  /\ proc' = [r.p EXCEPT !.attempts = @ + 1,
                                     !.prev_get = r.settings.id]
              /\ procOp' = [NoProcOp EXCEPT
                               !.op = kind, !.constructed = ~r.raised,
                               !.settings = r.settings, !.raised = r.raised,
                               !.drivers = r.p.drivers - proc.drivers,
                               !.handles = r.p.handles - proc.handles]
    /\ UNCHANGED env

StrategyOps == {"vector_cypher", "text2cypher"}

\* C18: configuration errors are fatal and surfaced before startup: no
\* strategy is constructed, and no driver or model handle is created, from
\* settings for which validate() reports valid = false.
C18_InvalidSettingsBuildNothing ==
    (procOp.op \in StrategyOps /\ ~validate(procOp.settings.values).valid) =>
        /\ ~procOp.constructed
        /\ procOp.drivers = 0
        /\ procOp.handles = 0

\* C19: get_settings constructs a Settings only when none is installed;
\* get_settings calls with no set_settings between them return the same
\* instance; after set_settings(s), get_settings returns s.
C19_SettingsSingleton ==
    /\ procOp.op = "get_settings" =>
          /\ procOp.constructed <=> procOp.was_none
          /\ procOp.returned = proc.settings.id
          /\ procOp.before # 0 => procOp.returned = procOp.before
          /\ proc.last_set # 0 => procOp.returned = proc.last_set
    /\ procOp.op = "set_settings" => proc.settings.id = procOp.returned

\* Two get_settings calls in a row after a set_settings: the second
\* returned the installed instance again and built nothing.
C19_Witness ==
    /\ procOp.op = "get_settings"
    /\ procOp.before # 0
    /\ proc.last_set # 0
    /\ procOp.returned = proc.last_set
    /\ ~procOp.constructed

\* C20: get_client constructs the client, and so configures the default
\* connection, at most once until set_client replaces it, and constructing
\* a client with the host that is already the default leaves the effective
\* default connection unchanged.
C20_ClientSingleton ==
    /\ proc.client_builds <= 1
    /\ procOp.op = "get_client" =>
          /\ procOp.constructed <=> procOp.was_none
          /\ procOp.returned = proc.client.id
          /\ ~procOp.constructed => proc.default_host = procOp.before
    /\ (procOp.op \in {"get_client", "LMStudioClient"} /\ procOp.constructed) =>
          /\ proc.default_host = procOp.arg
          /\ procOp.arg = procOp.before => proc.default_host = procOp.before

\* A second client was built with the host that was already the default.
C20_Witness ==
    /\ procOp.op = "LMStudioClient"
    /\ procOp.arg = procOp.before
    /\ proc.default_host = procOp.before
    /\ proc.configure_calls >= 2
    /\ proc.client # NoInstance

(***************************************************************************)
(* utils/helpers.py: HealthChecker                                         *)
(***************************************************************************)

\* How the services behave during one sweep: the database (the driver
\* cannot be created, the server is unreachable, the test query fails, or
\* all is well), the LMStudio server as seen by the client, the embedding
\* model (unavailable when the embedder is built, or as embed answers), and
\* the chat model.
ServiceBehaviours ==
    [neo4j : {"ok", "driver_error", "unreachable", "query_error"},
     lmstudio : BackendOutcomes,
     embedder : {"init_error"} \cup EmbedOutcomes,
     llm : BackendOutcomes]

HealthResult(service, healthy, error) ==
    [service |-> service, healthy |-> healthy, error |-> error]

\* check_neo4j_health: the driver, verify_connectivity and a test query in
\* one try; healthy only if all three succeed.
check_neo4j_health(e) ==
    IF e.neo4j = "ok" THEN Ok(HealthResult("neo4j", TRUE, None), <<>>)
    ELSE Ok(HealthResult("neo4j", FALSE, e.neo4j), <<>>)

\* check_lmstudio_health: healthy iff client.health_check() returns True.
check_lmstudio_health(e) ==
    IF health_check(e.lmstudio).value
    THEN Ok(HealthResult("lmstudio", TRUE, None), <<>>)
    ELSE Ok(HealthResult("lmstudio", FALSE, "LMStudio health check failed"), <<>>)

\* check_embedder_health: LMStudioEmbedder() and embed_query("test") in one
\* try; healthy iff neither raises.
check_embedder_health(e) ==
    IF e.embedder = "init_error"
    THEN Ok(HealthResult("embedder", FALSE, "Failed to get embedding model"), <<>>)
    ELSE LET test_embedding == embed_query([max_retries |-> 3], "test", e.embedder)
         IN  IF test_embedding.raised
             THEN Ok(HealthResult("embedder", FALSE, test_embedding.value), <<>>)
             ELSE Ok(HealthResult("embedder", TRUE, None), <<>>)

\* check_llm_health: LMStudioLLM() and invoke(...) in one try; healthy iff
\* neither raises, whatever the completion is.
check_llm_health(e) ==
    IF get_llm(e.llm).raised
    THEN Ok(HealthResult("llm", FALSE, "backend error"), <<>>)
    ELSE LET test_response ==
                 LLMInvoke(TestArgs("Say 'Hello' in exactly one word."), e.llm)
         IN  IF test_response.raised
             THEN Ok(HealthResult("llm", FALSE, test_response.value), <<>>)
             ELSE Ok(HealthResult("llm", TRUE, None), <<>>)

\* A plausible slip: the overall flag is cleared only when a check raises.
RunHealthCheck_flag_on_raise_only(results, component_name, r) ==
    IF r.raised
    THEN [overall_healthy |-> FALSE,
          components |-> DictSet(results.components, component_name,
                                 HealthResult(component_name, FALSE,
                                              "Health check failed"))]
    ELSE [overall_healthy |-> results.overall_healthy,
          components |-> DictSet(results.components, component_name, r.value)]

\* One turn of the loop of check_all_health: the result of the check is
\* stored under the component's name, and the overall flag is cleared when
\* it is unhealthy or when the check raised.
RunHealthCheck(results, component_name, r) ==
    IF r.raised
    THEN [overall_healthy |-> FALSE,
          components |-> DictSet(results.components, component_name,
                                 HealthResult(component_name, FALSE,
                                              "Health check failed"))]
    ELSE [overall_healthy |-> results.overall_healthy /\ r.value.healthy,
          components |-> DictSet(results.components, component_name, r.value)]

\* HealthChecker.check_all_health
check_all_health(e) ==
    LET r0 == [overall_healthy |-> TRUE, components |-> <<>>]
        r1 == RunHealthCheck(r0, "neo4j", check_neo4j_health(e))
        r2 == RunHealthCheck(r1, "lmstudio", check_lmstudio_health(e))
        r3 == RunHealthCheck(r2, "embedder", check_embedder_health(e))
    IN  RunHealthCheck(r3, "llm", check_llm_health(e))

NoHealth ==
    [status |-> "none", overall_healthy |-> FALSE, components |-> <<>>,
     services |-> [neo4j |-> "ok", lmstudio |-> [kind |-> "content", text |-> ""],
                   embedder |-> "list", llm |-> [kind |-> "content", text |-> ""]]]

HealthInit == health = NoHealth
HealthIdle == health = NoHealth

\* checker.check_all_health()
CheckAllHealth ==
    \E e \in ServiceBehaviours :
        LET r == check_all_health(e)
        IN  health' = [status |-> "returned", overall_healthy |-> r.overall_healthy,
                       components |-> r.components, services |-> e]

\* The service behind a component did what its check needs.
ServiceUp(name) ==
    CASE name = "neo4j" -> health.services.neo4j = "ok"
      [] name = "lmstudio" -> health.services.lmstudio.kind # "unreachable"
      [] name = "embedder" -> health.services.embedder \in {"ndarray", "list"}
      [] OTHER -> health.services.llm.kind \in {"content", "plain"}

\* C21: check_all_health never raises and always reports exactly the four
\* components neo4j, lmstudio, embedder and llm; a check that fails is
\* recorded as unhealthy and the remaining checks still run; overall_healthy
\* is true if and only if every component result is healthy.
C21_FullSweepAlwaysReported ==
    health # NoHealth =>
        /\ health.status = "returned"
        /\ [k \in DOMAIN health.components |-> health.components[k].key]
              = <<"neo4j", "lmstudio", "embedder", "llm">>
        /\ \A k \in DOMAIN health.components :
              /\ health.components[k].value.service = health.components[k].key
              /\ health.components[k].value.healthy
                    <=> ServiceUp(health.components[k].key)
        /\ health.overall_healthy
              <=> \A k \in DOMAIN health.components :
                     health.components[k].value.healthy

\* The database is down and the embedding model fails while the LMStudio
\* server and the chat model answer: all four are reported.
C21_Witness ==
    /\ health.status = "returned"
    /\ Len(health.components) = 4
    /\ ~health.components[1].value.healthy
    /\ health.components[2].value.healthy
    /\ ~health.components[3].value.healthy
    /\ health.components[4].value.healthy
    /\ ~health.overall_healthy

(***************************************************************************)
(* config/settings.py: Settings.to_dict                                    *)
(***************************************************************************)

\* Settings as to_dict reads them: the secrets and a few other fields vary,
\* the remaining fields keep the defaults of the dataclasses.
ApiKeys == {None, "", "lm-studio", "sk-other"}
SecretPasswords == {"", "pw-A", "pw-B"}

FullSettings ==
    [api_host : {"http://127.0.0.1:1234/v1", "http://gpu-box:1234/v1"},
     api_key : ApiKeys,
     chat_model : {"meta-llama-3.1-8b-instruct"},
     embedding_model : {"nomic-ai/nomic-embed-text-v1.5"},
     timeout : {300}, max_retries : {3}, temperature : {7},
     max_tokens : {None},
     uri : {"neo4j://localhost:7687"},
     username : {"neo4j", "admin"},
     password : SecretPasswords,
     database : {"neo4j"},
     connection_timeout : {30}, max_connection_lifetime : {3600},
     vector_index_name : {"moviePlots"},
     top_k : {5}, similarity_threshold : {7}, batch_size : {32},
     return_properties : {<<"title", "plot">>},
     debug : BOOLEAN, log_level : {"INFO"}]

\* Python truthiness of an optional string.
StrTruthy(x) == x # None /\ x # ""

\* A plausible slip: the API key is copied into the dictionary.
to_dict_plain_key(s) ==
    [lmstudio |->
        [api_host |-> s.api_host,
         api_key |-> s.api_key,
         chat_model |-> s.chat_model,
         embedding_model |-> s.embedding_model,
         timeout |-> s.timeout,
         max_retries |-> s.max_retries,
         temperature |-> s.temperature,
         max_tokens |-> s.max_tokens],
     neo4j |->
        [uri |-> s.uri,
         username |-> s.username,
         password |-> IF StrTruthy(s.password) THEN "***" ELSE None,
         database |-> s.database,
         connection_timeout |-> s.connection_timeout,
         max_connection_lifetime |-> s.max_connection_lifetime],
     rag |->
        [vector_index_name |-> s.vector_index_name,
         top_k |-> s.top_k,
         similarity_threshold |-> s.similarity_threshold,
         batch_size |-> s.batch_size,
         return_properties |-> s.return_properties],
     debug |-> s.debug,
     log_level |-> s.log_level]

\* Settings.to_dict
to_dict(s) ==
    [lmstudio |->
        [api_host |-> s.api_host,
         api_key |-> IF StrTruthy(s.api_key) THEN "***" ELSE None,
         chat_model |-> s.chat_model,
         embedding_model |-> s.embedding_model,
         timeout |-> s.timeout,
         max_retries |-> s.max_retries,
         temperature |-> s.temperature,
         max_tokens |-> s.max_tokens],
     neo4j |->
        [uri |-> s.uri,
         username |-> s.username,
         password |-> IF StrTruthy(s.password) THEN "***" ELSE None,
         database |-> s.database,
         connection_timeout |-> s.connection_timeout,
         max_connection_lifetime |-> s.max_connection_lifetime],
     rag |->
        [vector_index_name |-> s.vector_index_name,
         top_k |-> s.top_k,
         similarity_threshold |-> s.similarity_threshold,
         batch_size |-> s.batch_size,
         return_properties |-> s.return_properties],
     debug |-> s.debug,
     log_level |-> s.log_level]

DumpInit == dumped = <<>>
DumpIdle == dumped = <<>>

\* settings.to_dict() on some Settings object; the two most recent calls
\* are kept side by side.
ToDict ==
    \E s \in FullSettings :
        LET call == [settings |-> s, dict |-> to_dict(s)]
        IN  dumped' = IF Len(dumped) < 2 THEN Append(dumped, call)
                      ELSE <<dumped[2], call>>

\* The two Settings agree on every field that is not a secret, and each
\* secret is set in both or empty in both.
SameButSecretValues(s, t) ==
    /\ [s EXCEPT !.api_key = None, !.password = ""]
          = [t EXCEPT !.api_key = None, !.password = ""]
    /\ StrTruthy(s.api_key) <=> StrTruthy(t.api_key)
    /\ StrTruthy(s.password) <=> StrTruthy(t.password)

\* C22: to_dict shows the api_key and the password only as "***" when set
\* and as null when empty, so two Settings that differ only in the value of
\* a non-empty api_key or password produce identical dictionaries.
C22_SecretsMasked ==
    /\ \A i \in DOMAIN dumped :
          /\ dumped[i].dict.lmstudio.api_key
                = IF StrTruthy(dumped[i].settings.api_key) THEN "***" ELSE None
          /\ dumped[i].dict.neo4j.password
                = IF dumped[i].settings.password # "" THEN "***" ELSE None
    /\ \A i, j \in DOMAIN dumped :
          SameButSecretValues(dumped[i].settings, dumped[j].settings)
             => dumped[i].dict = dumped[j].dict

\* Two Settings with different API keys and different passwords, equal
\* otherwise, were both converted.
C22_Witness ==
    /\ Len(dumped) = 2
    /\ SameButSecretValues(dumped[1].settings, dumped[2].settings)
    /\ dumped[1].settings.api_key = "lm-studio"
    /\ dumped[2].settings.api_key = "sk-other"
    /\ dumped[1].settings.password = "pw-A"
    /\ dumped[2].settings.password = "pw-B"

(***************************************************************************)
(* utils/helpers.py: ConnectionManager                                     *)
(***************************************************************************)

MaxCalls == 8

\* ConnectionManager.__init__: nothing is held.  A driver is named by its
\* position in drivers; 0 stands for None.
NewManager == [neo4j_driver |-> 0, lmstudio_client |-> None]

\* get_neo4j_driver: GraphDatabase.driver(...) is called only when no driver
\* is held; when that raises nothing is assigned.  Otherwise the held driver
\* is returned.
get_neo4j_driver(m, ds, creation_fails) ==
    IF m.neo4j_driver = 0
    THEN IF creation_fails
         THEN [manager |-> m, drivers |-> ds, raised |-> TRUE, value |-> 0,
               created |-> FALSE]
         ELSE [manager |-> [m EXCEPT !.neo4j_driver = Len(ds) + 1],
               drivers |-> Append(ds, [open |-> TRUE, close_calls |-> 0]),
               raised |-> FALSE, value |-> Len(ds) + 1, created |-> TRUE]
    ELSE [manager |-> m, drivers |-> ds, raised |-> FALSE,
          value |-> m.neo4j_driver, created |-> FALSE]

\* get_lmstudio_client: the client from get_client(), cached.
get_lmstudio_client(m) ==
    IF m.lmstudio_client = None THEN [m EXCEPT !.lmstudio_client = "client"] ELSE m

\* A plausible slip: the driver is closed but the field is not cleared.
close_connections_keep_field(m, ds) ==
    IF m.neo4j_driver # 0
    THEN [manager |-> [m EXCEPT !.lmstudio_client = None],
          drivers |-> [ds EXCEPT ![m.neo4j_driver] =
                          [open |-> FALSE, close_calls |-> @.close_calls + 1]],
          closed |-> 1]
    ELSE [manager |-> [m EXCEPT !.lmstudio_client = None], drivers |-> ds,
          closed |-> 0]

\* close_connections: a held driver is closed and the field cleared; the
\* client reference is dropped.
close_connections(m, ds) ==
    IF m.neo4j_driver # 0
    THEN [manager |-> [m EXCEPT !.neo4j_driver = 0, !.lmstudio_client = None],
          drivers |-> [ds EXCEPT ![m.neo4j_driver] =
                          [open |-> FALSE, close_calls |-> @.close_calls + 1]],
          closed |-> 1]
    ELSE [manager |-> [m EXCEPT !.lmstudio_client = None], drivers |-> ds,
          closed |-> 0]

NoManagerCall ==
    [op |-> "none", n |-> 0, held_before |-> 0, raised |-> FALSE, value |-> 0,
     created |-> FALSE, closed |-> 0]

ConnInit ==
    /\ manager = NewManager
    /\ drivers = <<>>
    /\ managerCall = NoManagerCall

ConnIdle ==
    /\ manager = NewManager
    /\ drivers = <<>>
    /\ managerCall = NoManagerCall

\* manager.get_neo4j_driver()
GetNeo4jDriver ==
    /\ managerCall.n < MaxCalls
    /\ \E creation_fails \in BOOLEAN :
          LET r == get_neo4j_driver(manager, drivers, creation_fails)
          IN  /\ manager' = r.manager
              /\ drivers' = r.drivers
              /\ managerCall' = [op |-> "get_neo4j_driver", n |-> managerCall.n + 1,
                                 held_before |-> manager.neo4j_driver,
                                 raised |-> r.raised, value |-> r.value,
                                 created |-> r.created, closed |-> 0]

\* manager.get_lmstudio_client()
GetLMStudioClient ==
    /\ managerCall.n < MaxCalls
    /\ manager' = get_lmstudio_client(manager)
    /\ managerCall' = [op |-> "get_lmstudio_client", n |-> managerCall.n + 1,
                       held_before |-> manager.neo4j_driver,
                       raised |-> FALSE, value |-> 0,
                       created |-> FALSE, closed |-> 0]
    /\ UNCHANGED drivers

\* manager.close_connections()
CloseConnections ==
    /\ managerCall.n < MaxCalls
    /\ LET r == close_connections(manager, drivers)
       IN  /\ manager' = r.manager
           /\ drivers' = r.drivers
           /\ managerCall' = [op |-> "close_connections", n |-> managerCall.n + 1,
                              held_before |-> manager.neo4j_driver,
                              raised |-> FALSE, value |-> 0,
                              created |-> FALSE, closed |-> r.closed]

OpenDrivers == {d \in DOMAIN drivers : drivers[d].open}

\* C28: over any sequence of get_neo4j_driver and close_connections calls,
\* at most one driver the manager created is open at a time;
\* get_neo4j_driver creates a driver only when none is held and otherwise
\* returns the held one; close_connections closes the held driver exactly
\* once and clears it; a second close_connections closes nothing; and
\* get_neo4j_driver never returns a driver that close_connections has closed.
C28_AtMostOneOpenDriver ==
    /\ Cardinality(OpenDrivers) <= 1
    /\ OpenDrivers = IF manager.neo4j_driver = 0 THEN {} ELSE {manager.neo4j_driver}
    /\ \A d \in DOMAIN drivers : drivers[d].close_calls <= 1
    /\ managerCall.op = "get_neo4j_driver" =>
          /\ managerCall.created <=> (managerCall.held_before = 0 /\ ~managerCall.raised)
          /\ managerCall.raised => managerCall.held_before = 0
          /\ managerCall.held_before # 0 => managerCall.value = managerCall.held_before
          /\ ~managerCall.raised =>
                /\ managerCall.value = manager.neo4j_driver
                /\ drivers[managerCall.value].open
                /\ drivers[managerCall.value].close_calls = 0
    /\ managerCall.op = "close_connections" =>
          /\ manager.neo4j_driver = 0
          /\ managerCall.closed = IF managerCall.held_before = 0 THEN 0 ELSE 1
          /\ managerCall.held_before # 0 =>
                /\ ~drivers[managerCall.held_before].open
                /\ drivers[managerCall.held_before].close_calls = 1

\* A driver was created and closed, a second close closed nothing, and the
\* next get created a second driver.
C28_Witness ==
    /\ Len(drivers) = 2
    /\ drivers[1] = [open |-> FALSE, close_calls |-> 1]
    /\ drivers[2] = [open |-> TRUE, close_calls |-> 0]
    /\ managerCall.op = "get_neo4j_driver"
    /\ managerCall.value = 2
    /\ managerCall.n >= 4

(***************************************************************************)
(* utils/helpers.py: SchemaExtractor.get_schema_summary                    *)
(*                                                                         *)
(* The text is kept as the list summary_parts, one entry per line, each a  *)
(* record of what the line is made of.                                     *)
(***************************************************************************)

\* list(info["properties"].keys())
Keys(d) == [k \in DOMAIN d |-> d[k].key]

\* ', '.join(props) raises TypeError when an item is not a string.
JoinRaises(props) == \E k \in DOMAIN props : props[k] = None

\* The lines of a section of types: "  <type>: <p1>, <p2>" or
\* "  <type>: no properties" when the type has no property keys.
TypeLines(types) ==
    [k \in DOMAIN types |->
        [line |-> "type", name |-> types[k].key,
         props |-> IF Keys(types[k].value.properties) = <<>>
                   THEN <<"no properties">>
                   ELSE Keys(types[k].value.properties)]]

TypeLinesRaise(types) ==
    \E k \in DOMAIN types : JoinRaises(Keys(types[k].value.properties))

\* "  (:<start>)-[:<relationship>]->(:<end>)"
PatternLines(patterns) ==
    [k \in DOMAIN patterns |->
        [line |-> "pattern", name |-> patterns[k].relationship,
         props |-> <<patterns[k].start_node, patterns[k].end_node>>]]

Header(text) == [line |-> "header", name |-> text, props |-> <<>>]
CountLine(text, n) == [line |-> "count", name |-> text, props |-> <<n>>]

\* summary_parts for a schema, section by section; an empty section adds
\* nothing.
SummaryParts(schema) ==
    (IF schema.nodes # <<>>
     THEN <<Header("Node Types:")>> \o TypeLines(schema.nodes) ELSE <<>>)
    \o (IF schema.relationships # <<>>
        THEN <<Header("Relationship Types:")>> \o TypeLines(schema.relationships)
        ELSE <<>>)
    \o (IF schema.patterns # <<>>
        THEN <<Header("Relationship Patterns:")>> \o PatternLines(schema.patterns)
        ELSE <<>>)
    \o (IF schema.indexes # <<>>
        THEN <<CountLine("Indexes", Len(schema.indexes))>> ELSE <<>>)
    \o (IF schema.constraints # <<>>
        THEN <<CountLine("Constraints", Len(schema.constraints))>> ELSE <<>>)

\* return f"Schema extraction failed: {e}"
FailureText(e) == <<[line |-> "failure", name |-> "Schema extraction failed:",
                     props |-> <<e>>]>>

\* SchemaExtractor.get_schema_summary: extraction and rendering sit in one
\* try, and every exception becomes the failure text.
get_schema_summary(cat, inp) ==
    LET e == extract_full_schema(cat, inp)
    IN  IF e.raised
        THEN Ok(FailureText("RuntimeError: Schema extraction failed"), e.queries)
        ELSE IF TypeLinesRaise(e.schema.nodes) \/ TypeLinesRaise(e.schema.relationships)
        THEN Ok(FailureText("TypeError: sequence item: expected str instance, NoneType found"),
                e.queries)
        ELSE Ok(SummaryParts(e.schema), e.queries)

NoSummaryCall ==
    [status |-> "none", catalog |-> NoExtraction.catalog, input |-> <<>>,
     extracted |-> FALSE, schema |-> SchemaRaised(<<>>).schema, text |-> <<>>]

SummaryInit == summaryCall = NoSummaryCall
SummaryIdle == summaryCall = NoSummaryCall

\* extractor.get_schema_summary() against some catalog.
GetSchemaSummary ==
    \E cat \in Catalogs :
        \E inp \in ExtractionInputs(cat) :
            LET e == extract_full_schema(cat, inp)
                r == get_schema_summary(cat, inp)
            IN  summaryCall' =
                    [status |-> IF r.raised THEN "raised" ELSE "returned",
                     catalog |-> cat, input |-> <<inp>>,
                     extracted |-> ~e.raised, schema |-> e.schema,
                     text |-> r.value]

IsFailureText(text) == Len(text) = 1 /\ text[1].line = "failure"

\* The names of the lines of one kind, in the order they appear.
RECURSIVE LineNames(_, _)
LineNames(text, kind) ==
    IF text = <<>> THEN <<>>
    ELSE (IF Head(text).line = kind THEN <<Head(text).name>> ELSE <<>>)
         \o LineNames(Tail(text), kind)

\* C30: get_schema_summary never raises: when schema extraction fails it
\* returns a text beginning "Schema extraction failed:", and when
\* extraction succeeds it renders node types, relationship types and
\* patterns in the order extract_full_schema returned them, omitting every
\* section that is empty.
C30_SummaryRendersSchema ==
    summaryCall # NoSummaryCall =>
        /\ summaryCall.status = "returned"
        /\ ~summaryCall.extracted => IsFailureText(summaryCall.text)
        /\ summaryCall.extracted =>
              /\ ~IsFailureText(summaryCall.text)
              /\ LineNames(summaryCall.text, "type")
                    = Keys(summaryCall.schema.nodes) \o Keys(summaryCall.schema.relationships)
              /\ LineNames(summaryCall.text, "pattern")
                    = [k \in DOMAIN summaryCall.schema.patterns |->
                          summaryCall.schema.patterns[k].relationship]
              /\ "Node Types:" \in Range(LineNames(summaryCall.text, "header"))
                    <=> summaryCall.schema.nodes # <<>>
              /\ "Relationship Types:" \in Range(LineNames(summaryCall.text, "header"))
                    <=> summaryCall.schema.relationships # <<>>
              /\ "Relationship Patterns:" \in Range(LineNames(summaryCall.text, "header"))
                    <=> summaryCall.schema.patterns # <<>>
              /\ "Indexes" \in Range(LineNames(summaryCall.text, "count"))
                    <=> summaryCall.schema.indexes # <<>>
              /\ "Constraints" \in Range(LineNames(summaryCall.text, "count"))
                    <=> summaryCall.schema.constraints # <<>>

\* What does hold: the call always returns; a failed extraction gives the
\* failure text; a successful one is rendered as C30 says unless a type has
\* a null property name, and then the failure text is returned as well.
C30_SummaryNeverRaises ==
    summaryCall # NoSummaryCall =>
        /\ summaryCall.status = "returned"
        /\ ~summaryCall.extracted => IsFailureText(summaryCall.text)
        /\ (summaryCall.extracted /\ ~IsFailureText(summaryCall.text)) =>
              /\ summaryCall.text = SummaryParts(summaryCall.schema)
              /\ LineNames(summaryCall.text, "type")
                    = Keys(summaryCall.schema.nodes) \o Keys(summaryCall.schema.relationships)
        /\ (summaryCall.extracted /\ IsFailureText(summaryCall.text)) =>
              \E k \in DOMAIN summaryCall.schema.relationships :
                 JoinRaises(Keys(summaryCall.schema.relationships[k].value.properties))

(***************************************************************************)
(* Specifications                                                          *)
(***************************************************************************)

SettingsNext ==
    Validate /\ UNCHANGED <<llmVars, embVars, stratVars, schemaVars, coreVars,
    lazyVars, cypherVars, contextVars, processVars, healthVars, dumpVars,
    connVars, summaryVars>>

InitSettings ==
    SettingsInit /\ LLMIdle /\ EmbIdle /\ StratIdle /\ SchemaIdle /\ CoreIdle
    /\ LazyIdle /\ CypherIdle /\ ContextIdle /\ ProcessIdle /\ HealthIdle /\
    DumpIdle /\ ConnIdle /\ SummaryIdle

SpecSettings == InitSettings /\ [][SettingsNext]_vars

NextLLM ==
    LLMNext /\ UNCHANGED <<settingsVars, embVars, stratVars, schemaVars,
    coreVars, lazyVars, cypherVars, contextVars, processVars, healthVars,
    dumpVars, connVars, summaryVars>>

InitLLM ==
    SettingsIdle /\ LLMInit /\ EmbIdle /\ StratIdle /\ SchemaIdle /\ CoreIdle
    /\ LazyIdle /\ CypherIdle /\ ContextIdle /\ ProcessIdle /\ HealthIdle /\
    DumpIdle /\ ConnIdle /\ SummaryIdle

SpecLLM == InitLLM /\ [][NextLLM]_vars

NextEmb ==
    EmbNext /\ UNCHANGED <<settingsVars, llmVars, stratVars, schemaVars,
    coreVars, lazyVars, cypherVars, contextVars, processVars, healthVars,
    dumpVars, connVars, summaryVars>>

InitEmb ==
    SettingsIdle /\ LLMIdle /\ EmbInit /\ StratIdle /\ SchemaIdle /\ CoreIdle
    /\ LazyIdle /\ CypherIdle /\ ContextIdle /\ ProcessIdle /\ HealthIdle /\
    DumpIdle /\ ConnIdle /\ SummaryIdle

SpecEmb == InitEmb /\ [][NextEmb]_vars

OthersUnchanged ==
    UNCHANGED <<settingsVars, llmVars, embVars, schemaVars, coreVars,
    lazyVars, cypherVars, contextVars, processVars, healthVars, dumpVars,
    connVars, summaryVars>>

\* A strategy used by a single caller.
NextStrat ==
    \/ UpdateRetrievalQuery /\ OthersUnchanged
    \/ AddExamples /\ OthersUnchanged
    \/ UpdateSchema /\ OthersUnchanged
    \/ Search /\ OthersUnchanged
    \/ RetrieveOnly /\ OthersUnchanged

InitStrat ==
    SettingsIdle /\ LLMIdle /\ EmbIdle /\ StratInit /\ SchemaIdle /\ CoreIdle
    /\ LazyIdle /\ CypherIdle /\ ContextIdle /\ ProcessIdle /\ HealthIdle /\
    DumpIdle /\ ConnIdle /\ SummaryIdle

SpecStrat == InitStrat /\ [][NextStrat]_vars

\* A strategy updated by one thread while another calls search and
\* retrieve_only.
NextStratConc ==
    \/ BeginUpdateRetrievalQuery /\ OthersUnchanged
    \/ BeginAddExamples /\ OthersUnchanged
    \/ BeginUpdateSchema /\ OthersUnchanged
    \/ StepAssignRetriever /\ OthersUnchanged
    \/ StepAssignPipeline /\ OthersUnchanged
    \/ Search /\ OthersUnchanged
    \/ RetrieveOnly /\ OthersUnchanged

SpecStratConc == InitStrat /\ [][NextStratConc]_vars

\* validate_setup on a freshly constructed strategy.
NextValidate == ValidateSetup /\ OthersUnchanged

SpecValidate == InitStrat /\ [][NextValidate]_vars

\* Schema extraction against a database whose catalog can change.
SchemaOthersUnchanged ==
    UNCHANGED <<settingsVars, llmVars, embVars, stratVars, coreVars, lazyVars,
    cypherVars, contextVars, processVars, healthVars, dumpVars, connVars,
    summaryVars>>

NextSchema ==
    \/ ExtractFullSchema /\ SchemaOthersUnchanged
    \/ ChangeCatalog /\ SchemaOthersUnchanged

InitSchema ==
    SettingsIdle /\ LLMIdle /\ EmbIdle /\ StratIdle /\ SchemaInit /\ CoreIdle
    /\ LazyIdle /\ CypherIdle /\ ContextIdle /\ ProcessIdle /\ HealthIdle /\
    DumpIdle /\ ConnIdle /\ SummaryIdle

SpecSchema == InitSchema /\ [][NextSchema]_vars

\* the client, the LLM and the embedder called one call at a time
CoreOthersUnchanged ==
    UNCHANGED <<settingsVars, llmVars, embVars, stratVars, schemaVars,
    lazyVars, cypherVars, contextVars, processVars, healthVars, dumpVars,
    connVars, summaryVars>>

NextCore ==
    \/ HealthCheck /\ CoreOthersUnchanged
    \/ ClientValidateConnection /\ CoreOthersUnchanged
    \/ LLMValidateConnection /\ CoreOthersUnchanged
    \/ EmbedderValidate /\ CoreOthersUnchanged
    \/ CoreInvoke /\ CoreOthersUnchanged
    \/ EmbedQuery /\ CoreOthersUnchanged

InitCore ==
    SettingsIdle /\ LLMIdle /\ EmbIdle /\ StratIdle /\ SchemaIdle /\ CoreInit
    /\ LazyIdle /\ CypherIdle /\ ContextIdle /\ ProcessIdle /\ HealthIdle /\
    DumpIdle /\ ConnIdle /\ SummaryIdle

SpecCore == InitCore /\ [][NextCore]_vars

\* the traversal strategy's calls with their outcomes
LazyOthersUnchanged ==
    UNCHANGED <<settingsVars, llmVars, embVars, schemaVars, coreVars,
    cypherVars, contextVars, processVars, healthVars, dumpVars, connVars,
    summaryVars>>

NextLazy ==
    \/ CallUpdateRetrievalQuery /\ LazyOthersUnchanged
    \/ CallSearch /\ LazyOthersUnchanged
    \/ CallRetrieveOnly /\ LazyOthersUnchanged

InitLazy ==
    SettingsIdle /\ LLMIdle /\ EmbIdle /\ StratInit /\ SchemaIdle /\ CoreIdle
    /\ LazyInit /\ CypherIdle /\ ContextIdle /\ ProcessIdle /\ HealthIdle /\
    DumpIdle /\ ConnIdle /\ SummaryIdle

SpecLazy == InitLazy /\ [][NextLazy]_vars

\* generate_cypher and execute_cypher called one call at a time
CypherOthersUnchanged ==
    UNCHANGED <<settingsVars, llmVars, embVars, stratVars, schemaVars,
    coreVars, lazyVars, contextVars, processVars, healthVars, dumpVars,
    connVars, summaryVars>>

NextCypher ==
    \/ GenerateCypher /\ CypherOthersUnchanged
    \/ ExecuteCypher /\ CypherOthersUnchanged

InitCypher ==
    SettingsIdle /\ LLMIdle /\ EmbIdle /\ StratIdle /\ SchemaIdle /\ CoreIdle
    /\ LazyIdle /\ CypherInit /\ ContextIdle /\ ProcessIdle /\ HealthIdle /\
    DumpIdle /\ ConnIdle /\ SummaryIdle

SpecCypher == InitCypher /\ [][NextCypher]_vars

\* a strategy used as a context manager
ContextOthersUnchanged ==
    UNCHANGED <<settingsVars, llmVars, embVars, stratVars, schemaVars,
    coreVars, lazyVars, cypherVars, processVars, healthVars, dumpVars,
    connVars, summaryVars>>

NextContext ==
    \/ EnterBlock /\ ContextOthersUnchanged
    \/ BlockCall /\ ContextOthersUnchanged
    \/ BlockClose /\ ContextOthersUnchanged
    \/ BlockCompletes /\ ContextOthersUnchanged
    \/ BlockRaises /\ ContextOthersUnchanged

InitContext ==
    SettingsIdle /\ LLMIdle /\ EmbIdle /\ StratIdle /\ SchemaIdle /\ CoreIdle
    /\ LazyIdle /\ CypherIdle /\ ContextInit /\ ProcessIdle /\ HealthIdle /\
    DumpIdle /\ ConnIdle /\ SummaryIdle

SpecContext == InitContext /\ [][NextContext]_vars

\* the process-wide settings and client, and strategies constructed from them
ProcessOthersUnchanged ==
    UNCHANGED <<settingsVars, llmVars, embVars, stratVars, schemaVars,
    coreVars, lazyVars, cypherVars, contextVars, healthVars, dumpVars,
    connVars, summaryVars>>

NextProcess ==
    \/ GetSettings /\ ProcessOthersUnchanged
    \/ SetSettings /\ ProcessOthersUnchanged
    \/ GetClient /\ ProcessOthersUnchanged
    \/ ConstructClient /\ ProcessOthersUnchanged
    \/ SetClient /\ ProcessOthersUnchanged
    \/ ConstructStrategy /\ ProcessOthersUnchanged

InitProcess ==
    SettingsIdle /\ LLMIdle /\ EmbIdle /\ StratIdle /\ SchemaIdle /\ CoreIdle
    /\ LazyIdle /\ CypherIdle /\ ContextIdle /\ ProcessInit /\ HealthIdle /\
    DumpIdle /\ ConnIdle /\ SummaryIdle

SpecProcess == InitProcess /\ [][NextProcess]_vars

\* check_all_health run against services in any condition
HealthOthersUnchanged ==
    UNCHANGED <<settingsVars, llmVars, embVars, stratVars, schemaVars,
    coreVars, lazyVars, cypherVars, contextVars, processVars, dumpVars,
    connVars, summaryVars>>

NextHealth ==
    \/ CheckAllHealth /\ HealthOthersUnchanged

InitHealth ==
    SettingsIdle /\ LLMIdle /\ EmbIdle /\ StratIdle /\ SchemaIdle /\ CoreIdle
    /\ LazyIdle /\ CypherIdle /\ ContextIdle /\ ProcessIdle /\ HealthInit /\
    DumpIdle /\ ConnIdle /\ SummaryIdle

SpecHealth == InitHealth /\ [][NextHealth]_vars

\* to_dict applied to Settings with any secrets
DumpOthersUnchanged ==
    UNCHANGED <<settingsVars, llmVars, embVars, stratVars, schemaVars,
    coreVars, lazyVars, cypherVars, contextVars, processVars, healthVars,
    connVars, summaryVars>>

NextDump ==
    \/ ToDict /\ DumpOthersUnchanged

InitDump ==
    SettingsIdle /\ LLMIdle /\ EmbIdle /\ StratIdle /\ SchemaIdle /\ CoreIdle
    /\ LazyIdle /\ CypherIdle /\ ContextIdle /\ ProcessIdle /\ HealthIdle /\
    DumpInit /\ ConnIdle /\ SummaryIdle

SpecDump == InitDump /\ [][NextDump]_vars

\* get and close calls on a ConnectionManager in any order
ConnOthersUnchanged ==
    UNCHANGED <<settingsVars, llmVars, embVars, stratVars, schemaVars,
    coreVars, lazyVars, cypherVars, contextVars, processVars, healthVars,
    dumpVars, summaryVars>>

NextConn ==
    \/ GetNeo4jDriver /\ ConnOthersUnchanged
    \/ GetLMStudioClient /\ ConnOthersUnchanged
    \/ CloseConnections /\ ConnOthersUnchanged

InitConn ==
    SettingsIdle /\ LLMIdle /\ EmbIdle /\ StratIdle /\ SchemaIdle /\ CoreIdle
    /\ LazyIdle /\ CypherIdle /\ ContextIdle /\ ProcessIdle /\ HealthIdle /\
    DumpIdle /\ ConnInit /\ SummaryIdle

SpecConn == InitConn /\ [][NextConn]_vars

\* get_schema_summary against any catalog and any query failure
SummaryOthersUnchanged ==
    UNCHANGED <<settingsVars, llmVars, embVars, stratVars, schemaVars,
    coreVars, lazyVars, cypherVars, contextVars, processVars, healthVars,
    dumpVars, connVars>>

NextSummary ==
    \/ GetSchemaSummary /\ SummaryOthersUnchanged

InitSummary ==
    SettingsIdle /\ LLMIdle /\ EmbIdle /\ StratIdle /\ SchemaIdle /\ CoreIdle
    /\ LazyIdle /\ CypherIdle /\ ContextIdle /\ ProcessIdle /\ HealthIdle /\
    DumpIdle /\ ConnIdle /\ SummaryInit

SpecSummary == InitSummary /\ [][NextSummary]_vars

====
